---- MODULE Spec2Model ----
(***************************************************************************)
(* React-to-Angular transpiler: the transformation core (ASTTransformer    *)
(* and its four rules) and the three generators, as a state machine.       *)
(*                                                                         *)
(* Python values are encoded as follows.                                   *)
(*   str    a sequence of one-character strings (S of "ab" is <<"a","b">>),   *)
(*          so that replace, startswith, regular expressions and           *)
(*          concatenation work on characters as they do in the code;       *)
(*   dict   a record; every syntax-tree node carries its "type";           *)
(*   list   a sequence;                                                    *)
(*   None   the record None_;  {} (an empty dict) the record EmptyDict.    *)
(* A str that sits in a list next to dicts (an Element's children) is      *)
(* wrapped as [type |-> "str", value |-> text].                            *)
(***************************************************************************)
EXTENDS Integers, Sequences, FiniteSets, TLC

\* ---- string table (one entry per S("...") literal) ----
Chars ==
  ("" :> <<>>) @@
  (" " :> <<" ">>) @@
  ("  " :> <<" ", " ">>) @@
  (" = " :> <<" ", "=", " ">>) @@
  (" = $event" :> <<" ", "=", " ", "$", "e", "v", "e", "n", "t">>) @@
  (" = $event.target.value" :> <<" ", "=", " ", "$", "e", "v", "e", "n", "t", ".", "t", "a", "r", "g", "e", "t", ".", "v", "a", "l", "u", "e">>) @@
  (" = [" :> <<" ", "=", " ", "[">>) @@
  (" = [...this." :> <<" ", "=", " ", "[", ".", ".", ".", "t", "h", "i", "s", ".">>) @@
  (" = index\"" :> <<" ", "=", " ", "i", "n", "d", "e", "x", "\"">>) @@
  (" component */\n" :> <<" ", "c", "o", "m", "p", "o", "n", "e", "n", "t", " ", "*", "/", "\n">>) @@
  (" implements " :> <<" ", "i", "m", "p", "l", "e", "m", "e", "n", "t", "s", " ">>) @@
  (" of " :> <<" ", "o", "f", " ">>) @@
  (" {" :> <<" ", "{">>) @@
  (" {\n" :> <<" ", "{", "\n">>) @@
  (" } from '@angular/core';" :> <<" ", "}", " ", "f", "r", "o", "m", " ", "'", "@", "a", "n", "g", "u", "l", "a", "r", "/", "c", "o", "r", "e", "'", ";">>) @@
  (" }}" :> <<" ", "}", "}">>) @@
  ("$event" :> <<"$", "e", "v", "e", "n", "t">>) @@
  ("$event.target.value" :> <<"$", "e", "v", "e", "n", "t", ".", "t", "a", "r", "g", "e", "t", ".", "v", "a", "l", "u", "e">>) @@
  ("'" :> <<"'">>) @@
  ("''" :> <<"'", "'">>) @@
  ("', ...}" :> <<"'", ",", " ", ".", ".", ".", "}">>) @@
  ("',\n  templateUrl: './" :> <<"'", ",", "\n", " ", " ", "t", "e", "m", "p", "l", "a", "t", "e", "U", "r", "l", ":", " ", "'", ".", "/">>) @@
  ("(" :> <<"(">>) @@
  ("()" :> <<"(", ")">>) @@
  ("(): void {\n    " :> <<"(", ")", ":", " ", "v", "o", "i", "d", " ", "{", "\n", " ", " ", " ", " ">>) @@
  ("(change)" :> <<"(", "c", "h", "a", "n", "g", "e", ")">>) @@
  ("(click)" :> <<"(", "c", "l", "i", "c", "k", ")">>) @@
  (")" :> <<")">>) @@
  (") => " :> <<")", " ", "=", ">", " ">>) @@
  (") => ..." :> <<")", " ", "=", ">", " ", ".", ".", ".">>) @@
  (") {\n    " :> <<")", " ", "{", "\n", " ", " ", " ", " ">>) @@
  (")=\"" :> <<")", "=", "\"">>) @@
  ("*ngFor=\"let " :> <<"*", "n", "g", "F", "o", "r", "=", "\"", "l", "e", "t", " ">>) @@
  ("*ngIf=\"" :> <<"*", "n", "g", "I", "f", "=", "\"">>) @@
  ("+" :> <<"+">>) @@
  ("," :> <<",">>) @@
  (", " :> <<",", " ">>) @@
  (", ...this." :> <<",", " ", ".", ".", ".", "t", "h", "i", "s", ".">>) @@
  ("." :> <<".">>) @@
  ("..." :> <<".", ".", ".">>) @@
  (".component.css" :> <<".", "c", "o", "m", "p", "o", "n", "e", "n", "t", ".", "c", "s", "s">>) @@
  (".component.css']\n})" :> <<".", "c", "o", "m", "p", "o", "n", "e", "n", "t", ".", "c", "s", "s", "'", "]", "\n", "}", ")">>) @@
  (".component.html" :> <<".", "c", "o", "m", "p", "o", "n", "e", "n", "t", ".", "h", "t", "m", "l">>) @@
  (".component.html',\n  styleUrls: ['./" :> <<".", "c", "o", "m", "p", "o", "n", "e", "n", "t", ".", "h", "t", "m", "l", "'", ",", "\n", " ", " ", "s", "t", "y", "l", "e", "U", "r", "l", "s", ":", " ", "[", "'", ".", "/">>) @@
  (".component.ts" :> <<".", "c", "o", "m", "p", "o", "n", "e", "n", "t", ".", "t", "s">>) @@
  ("/* Styles for " :> <<"/", "*", " ", "S", "t", "y", "l", "e", "s", " ", "f", "o", "r", " ">>) @@
  ("// NOTE: Add FormsModule to your module's imports array for [(ngModel)] to work" :> <<"/", "/", " ", "N", "O", "T", "E", ":", " ", "A", "d", "d", " ", "F", "o", "r", "m", "s", "M", "o", "d", "u", "l", "e", " ", "t", "o", " ", "y", "o", "u", "r", " ", "m", "o", "d", "u", "l", "e", "'", "s", " ", "i", "m", "p", "o", "r", "t", "s", " ", "a", "r", "r", "a", "y", " ", "f", "o", "r", " ", "[", "(", "n", "g", "M", "o", "d", "e", "l", ")", "]", " ", "t", "o", " ", "w", "o", "r", "k">>) @@
  ("// TODO: implement handler" :> <<"/", "/", " ", "T", "O", "D", "O", ":", " ", "i", "m", "p", "l", "e", "m", "e", "n", "t", " ", "h", "a", "n", "d", "l", "e", "r">>) @@
  ("// TODO: implement hook" :> <<"/", "/", " ", "T", "O", "D", "O", ":", " ", "i", "m", "p", "l", "e", "m", "e", "n", "t", " ", "h", "o", "o", "k">>) @@
  ("0" :> <<"0">>) @@
  ("1" :> <<"1">>) @@
  (": " :> <<":", " ">>) @@
  (";" :> <<";">>) @@
  ("; let " :> <<";", " ", "l", "e", "t", " ">>) @@
  ("<" :> <<"<">>) @@
  ("<!-- Generated Angular template -->\n<div class=\"container\">\n  <!-- Add your template content here -->\n</div>" :> <<"<", "!", "-", "-", " ", "G", "e", "n", "e", "r", "a", "t", "e", "d", " ", "A", "n", "g", "u", "l", "a", "r", " ", "t", "e", "m", "p", "l", "a", "t", "e", " ", "-", "-", ">", "\n", "<", "d", "i", "v", " ", "c", "l", "a", "s", "s", "=", "\"", "c", "o", "n", "t", "a", "i", "n", "e", "r", "\"", ">", "\n", " ", " ", "<", "!", "-", "-", " ", "A", "d", "d", " ", "y", "o", "u", "r", " ", "t", "e", "m", "p", "l", "a", "t", "e", " ", "c", "o", "n", "t", "e", "n", "t", " ", "h", "e", "r", "e", " ", "-", "-", ">", "\n", "<", "/", "d", "i", "v", ">">>) @@
  ("</" :> <<"<", "/">>) @@
  ("=\"" :> <<"=", "\"">>) @@
  (">" :> <<">">>) @@
  ("></" :> <<">", "<", "/">>) @@
  (">\n" :> <<">", "\n">>) @@
  ("@Component({\n  selector: 'app-" :> <<"@", "C", "o", "m", "p", "o", "n", "e", "n", "t", "(", "{", "\n", " ", " ", "s", "e", "l", "e", "c", "t", "o", "r", ":", " ", "'", "a", "p", "p", "-">>) @@
  ("@Input" :> <<"@", "I", "n", "p", "u", "t">>) @@
  ("@Input()" :> <<"@", "I", "n", "p", "u", "t", "(", ")">>) @@
  ("@Output" :> <<"@", "O", "u", "t", "p", "u", "t">>) @@
  ("AngularComponent" :> <<"A", "n", "g", "u", "l", "a", "r", "C", "o", "m", "p", "o", "n", "e", "n", "t">>) @@
  ("App" :> <<"A", "p", "p">>) @@
  ("ArrayExpression" :> <<"A", "r", "r", "a", "y", "E", "x", "p", "r", "e", "s", "s", "i", "o", "n">>) @@
  ("ArrayPattern" :> <<"A", "r", "r", "a", "y", "P", "a", "t", "t", "e", "r", "n">>) @@
  ("ArrowFunctionExpression" :> <<"A", "r", "r", "o", "w", "F", "u", "n", "c", "t", "i", "o", "n", "E", "x", "p", "r", "e", "s", "s", "i", "o", "n">>) @@
  ("BinaryExpression" :> <<"B", "i", "n", "a", "r", "y", "E", "x", "p", "r", "e", "s", "s", "i", "o", "n">>) @@
  ("BlockStatement" :> <<"B", "l", "o", "c", "k", "S", "t", "a", "t", "e", "m", "e", "n", "t">>) @@
  ("CallExpression" :> <<"C", "a", "l", "l", "E", "x", "p", "r", "e", "s", "s", "i", "o", "n">>) @@
  ("Component" :> <<"C", "o", "m", "p", "o", "n", "e", "n", "t">>) @@
  ("Counter" :> <<"C", "o", "u", "n", "t", "e", "r">>) @@
  ("Element" :> <<"E", "l", "e", "m", "e", "n", "t">>) @@
  ("EventEmitter" :> <<"E", "v", "e", "n", "t", "E", "m", "i", "t", "t", "e", "r">>) @@
  ("ExportDefaultDeclaration" :> <<"E", "x", "p", "o", "r", "t", "D", "e", "f", "a", "u", "l", "t", "D", "e", "c", "l", "a", "r", "a", "t", "i", "o", "n">>) @@
  ("ExpressionStatement" :> <<"E", "x", "p", "r", "e", "s", "s", "i", "o", "n", "S", "t", "a", "t", "e", "m", "e", "n", "t">>) @@
  ("FunctionDeclaration" :> <<"F", "u", "n", "c", "t", "i", "o", "n", "D", "e", "c", "l", "a", "r", "a", "t", "i", "o", "n">>) @@
  ("FunctionExpression" :> <<"F", "u", "n", "c", "t", "i", "o", "n", "E", "x", "p", "r", "e", "s", "s", "i", "o", "n">>) @@
  ("Identifier" :> <<"I", "d", "e", "n", "t", "i", "f", "i", "e", "r">>) @@
  ("IfStatement" :> <<"I", "f", "S", "t", "a", "t", "e", "m", "e", "n", "t">>) @@
  ("ImportDeclaration" :> <<"I", "m", "p", "o", "r", "t", "D", "e", "c", "l", "a", "r", "a", "t", "i", "o", "n">>) @@
  ("Input" :> <<"I", "n", "p", "u", "t">>) @@
  ("JSXAttribute" :> <<"J", "S", "X", "A", "t", "t", "r", "i", "b", "u", "t", "e">>) @@
  ("JSXElement" :> <<"J", "S", "X", "E", "l", "e", "m", "e", "n", "t">>) @@
  ("JSXExpressionContainer" :> <<"J", "S", "X", "E", "x", "p", "r", "e", "s", "s", "i", "o", "n", "C", "o", "n", "t", "a", "i", "n", "e", "r">>) @@
  ("JSXIdentifier" :> <<"J", "S", "X", "I", "d", "e", "n", "t", "i", "f", "i", "e", "r">>) @@
  ("JSXOpeningElement" :> <<"J", "S", "X", "O", "p", "e", "n", "i", "n", "g", "E", "l", "e", "m", "e", "n", "t">>) @@
  ("JSXText" :> <<"J", "S", "X", "T", "e", "x", "t">>) @@
  ("Literal" :> <<"L", "i", "t", "e", "r", "a", "l">>) @@
  ("MemberExpression" :> <<"M", "e", "m", "b", "e", "r", "E", "x", "p", "r", "e", "s", "s", "i", "o", "n">>) @@
  ("None" :> <<"N", "o", "n", "e">>) @@
  ("OnDestroy" :> <<"O", "n", "D", "e", "s", "t", "r", "o", "y">>) @@
  ("OnInit" :> <<"O", "n", "I", "n", "i", "t">>) @@
  ("Output" :> <<"O", "u", "t", "p", "u", "t">>) @@
  ("Program" :> <<"P", "r", "o", "g", "r", "a", "m">>) @@
  ("ReturnStatement" :> <<"R", "e", "t", "u", "r", "n", "S", "t", "a", "t", "e", "m", "e", "n", "t">>) @@
  ("SpreadElement" :> <<"S", "p", "r", "e", "a", "d", "E", "l", "e", "m", "e", "n", "t">>) @@
  ("Total " :> <<"T", "o", "t", "a", "l", " ">>) @@
  ("True" :> <<"T", "r", "u", "e">>) @@
  ("VariableDeclaration" :> <<"V", "a", "r", "i", "a", "b", "l", "e", "D", "e", "c", "l", "a", "r", "a", "t", "i", "o", "n">>) @@
  ("VariableDeclarator" :> <<"V", "a", "r", "i", "a", "b", "l", "e", "D", "e", "c", "l", "a", "r", "a", "t", "o", "r">>) @@
  ("[" :> <<"[">>) @@
  ("['" :> <<"[", "'">>) @@
  ("[(ngModel)]=\"" :> <<"[", "(", "n", "g", "M", "o", "d", "e", "l", ")", "]", "=", "\"">>) @@
  ("[]" :> <<"[", "]">>) @@
  ("\"" :> <<"\"">>) @@
  ("\n" :> <<"\n">>) @@
  ("\n    " :> <<"\n", " ", " ", " ", " ">>) @@
  ("\n  }" :> <<"\n", " ", " ", "}">>) @@
  ("\n  }\n" :> <<"\n", " ", " ", "}", "\n">>) @@
  ("\n\n" :> <<"\n", "\n">>) @@
  ("\nexport class " :> <<"\n", "e", "x", "p", "o", "r", "t", " ", "c", "l", "a", "s", "s", " ">>) @@
  ("\n}" :> <<"\n", "}">>) @@
  ("\n} else {\n    " :> <<"\n", "}", " ", "e", "l", "s", "e", " ", "{", "\n", " ", " ", " ", " ">>) @@
  ("\n}\n" :> <<"\n", "}", "\n">>) @@
  ("]" :> <<"]">>) @@
  ("]=\"" :> <<"]", "=", "\"">>) @@
  ("__" :> <<"_", "_">>) @@
  ("__STR_" :> <<"_", "_", "S", "T", "R", "_">>) @@
  ("a" :> <<"a">>) @@
  ("a)" :> <<"a", ")">>) @@
  ("add" :> <<"a", "d", "d">>) @@
  ("any" :> <<"a", "n", "y">>) @@
  ("any[]" :> <<"a", "n", "y", "[", "]">>) @@
  ("b" :> <<"b">>) @@
  ("blur" :> <<"b", "l", "u", "r">>) @@
  ("boolean" :> <<"b", "o", "o", "l", "e", "a", "n">>) @@
  ("br" :> <<"b", "r">>) @@
  ("button" :> <<"b", "u", "t", "t", "o", "n">>) @@
  ("change" :> <<"c", "h", "a", "n", "g", "e">>) @@
  ("class" :> <<"c", "l", "a", "s", "s">>) @@
  ("className" :> <<"c", "l", "a", "s", "s", "N", "a", "m", "e">>) @@
  ("click" :> <<"c", "l", "i", "c", "k">>) @@
  ("count" :> <<"c", "o", "u", "n", "t">>) @@
  ("div" :> <<"d", "i", "v">>) @@
  ("e" :> <<"e">>) @@
  ("event" :> <<"e", "v", "e", "n", "t">>) @@
  ("f" :> <<"f">>) @@
  ("false" :> <<"f", "a", "l", "s", "e">>) @@
  ("focus" :> <<"f", "o", "c", "u", "s">>) @@
  ("get" :> <<"g", "e", "t">>) @@
  ("hello" :> <<"h", "e", "l", "l", "o">>) @@
  ("hr" :> <<"h", "r">>) @@
  ("i" :> <<"i">>) @@
  ("id" :> <<"i", "d">>) @@
  ("if (" :> <<"i", "f", " ", "(">>) @@
  ("img" :> <<"i", "m", "g">>) @@
  ("import { " :> <<"i", "m", "p", "o", "r", "t", " ", "{", " ">>) @@
  ("inc" :> <<"i", "n", "c">>) @@
  ("index" :> <<"i", "n", "d", "e", "x">>) @@
  ("initial" :> <<"i", "n", "i", "t", "i", "a", "l">>) @@
  ("input" :> <<"i", "n", "p", "u", "t">>) @@
  ("item" :> <<"i", "t", "e", "m">>) @@
  ("items" :> <<"i", "t", "e", "m", "s">>) @@
  ("key" :> <<"k", "e", "y">>) @@
  ("li" :> <<"l", "i">>) @@
  ("link" :> <<"l", "i", "n", "k">>) @@
  ("load" :> <<"l", "o", "a", "d">>) @@
  ("log" :> <<"l", "o", "g">>) @@
  ("make" :> <<"m", "a", "k", "e">>) @@
  ("map" :> <<"m", "a", "p">>) @@
  ("mark" :> <<"m", "a", "r", "k">>) @@
  ("meta" :> <<"m", "e", "t", "a">>) @@
  ("ngOnDestroy" :> <<"n", "g", "O", "n", "D", "e", "s", "t", "r", "o", "y">>) @@
  ("ngOnInit" :> <<"n", "g", "O", "n", "I", "n", "i", "t">>) @@
  ("note" :> <<"n", "o", "t", "e">>) @@
  ("null" :> <<"n", "u", "l", "l">>) @@
  ("number" :> <<"n", "u", "m", "b", "e", "r">>) @@
  ("number[]" :> <<"n", "u", "m", "b", "e", "r", "[", "]">>) @@
  ("on" :> <<"o", "n">>) @@
  ("onBlur" :> <<"o", "n", "B", "l", "u", "r">>) @@
  ("onChange" :> <<"o", "n", "C", "h", "a", "n", "g", "e">>) @@
  ("onClick" :> <<"o", "n", "C", "l", "i", "c", "k">>) @@
  ("onFocus" :> <<"o", "n", "F", "o", "c", "u", "s">>) @@
  ("onName" :> <<"o", "n", "N", "a", "m", "e">>) @@
  ("onSubmit" :> <<"o", "n", "S", "u", "b", "m", "i", "t">>) @@
  ("only" :> <<"o", "n", "l", "y">>) @@
  ("p" :> <<"p">>) @@
  ("pair" :> <<"p", "a", "i", "r">>) @@
  ("raise" :> <<"r", "a", "i", "s", "e">>) @@
  ("reset" :> <<"r", "e", "s", "e", "t">>) @@
  ("resetA" :> <<"r", "e", "s", "e", "t", "A">>) @@
  ("row" :> <<"r", "o", "w">>) @@
  ("rows" :> <<"r", "o", "w", "s">>) @@
  ("s" :> <<"s">>) @@
  ("save" :> <<"s", "a", "v", "e">>) @@
  ("setA" :> <<"s", "e", "t", "A">>) @@
  ("setB" :> <<"s", "e", "t", "B">>) @@
  ("setCount" :> <<"s", "e", "t", "C", "o", "u", "n", "t">>) @@
  ("setItems" :> <<"s", "e", "t", "I", "t", "e", "m", "s">>) @@
  ("setS" :> <<"s", "e", "t", "S">>) @@
  ("setTick" :> <<"s", "e", "t", "T", "i", "c", "k">>) @@
  ("source" :> <<"s", "o", "u", "r", "c", "e">>) @@
  ("span" :> <<"s", "p", "a", "n">>) @@
  ("state" :> <<"s", "t", "a", "t", "e">>) @@
  ("str" :> <<"s", "t", "r">>) @@
  ("string" :> <<"s", "t", "r", "i", "n", "g">>) @@
  ("string[]" :> <<"s", "t", "r", "i", "n", "g", "[", "]">>) @@
  ("submit" :> <<"s", "u", "b", "m", "i", "t">>) @@
  ("target" :> <<"t", "a", "r", "g", "e", "t">>) @@
  ("this." :> <<"t", "h", "i", "s", ".">>) @@
  ("this.this." :> <<"t", "h", "i", "s", ".", "t", "h", "i", "s", ".">>) @@
  ("title" :> <<"t", "i", "t", "l", "e">>) @@
  ("todo-list" :> <<"t", "o", "d", "o", "-", "l", "i", "s", "t">>) @@
  ("track" :> <<"t", "r", "a", "c", "k">>) @@
  ("true" :> <<"t", "r", "u", "e">>) @@
  ("twoWay" :> <<"t", "w", "o", "W", "a", "y">>) @@
  ("ul" :> <<"u", "l">>) @@
  ("undefined" :> <<"u", "n", "d", "e", "f", "i", "n", "e", "d">>) @@
  ("undo" :> <<"u", "n", "d", "o">>) @@
  ("useState" :> <<"u", "s", "e", "S", "t", "a", "t", "e">>) @@
  ("value" :> <<"v", "a", "l", "u", "e">>) @@
  ("void" :> <<"v", "o", "i", "d">>) @@
  ("x" :> <<"x">>) @@
  ("{" :> <<"{">>) @@
  ("{'type': '" :> <<"{", "'", "t", "y", "p", "e", "'", ":", " ", "'">>) @@
  ("{{ " :> <<"{", "{", " ">>) @@
  ("{}" :> <<"{", "}">>) @@
  ("}" :> <<"}">>)
\* ---- end of string table ----

\* The Python str written as the literal s.
S(s) == Chars[s]

(***************************************************************************)
(* Text operations (Python str methods used by the code)                   *)
(***************************************************************************)
StartsWith(t, p) == Len(t) >= Len(p) /\ SubSeq(t, 1, Len(p)) = p

EndsWith(t, p) == Len(t) >= Len(p) /\ SubSeq(t, Len(t) - Len(p) + 1, Len(t)) = p

\* p occurs in t at position i
MatchAt(t, i, p) == i >= 1 /\ i + Len(p) - 1 <= Len(t) /\ SubSeq(t, i, i + Len(p) - 1) = p

\* min(s) and max(s) of a set of positions, 0 when it is empty
Least(s) == IF s = {} THEN 0 ELSE CHOOSE x \in s : \A y \in s : x <= y

Greatest(s) == IF s = {} THEN 0 ELSE CHOOSE x \in s : \A y \in s : x >= y

\* the least j in lo..hi with P(j), 0 when there is none
First(lo, hi, P(_)) == Least({j \in lo..hi : P(j)})

\* the greatest j in lo..hi with P(j), 0 when there is none
Last(lo, hi, P(_)) == Greatest({j \in lo..hi : P(j)})

\* least position >= from at which p occurs in t, 0 when there is none
Find(t, p, from) == First(from, Len(t) - Len(p) + 1, LAMBDA j : MatchAt(t, j, p))

\* p in t
Contains(t, p) == Find(t, p, 1) # 0

\* t.replace(old, new), old not empty: leftmost non-overlapping occurrences
RECURSIVE Replace(_, _, _)
Replace(t, old, new) ==
  LET i == Find(t, old, 1) IN
  IF i = 0 THEN t
  ELSE SubSeq(t, 1, i - 1) \o new \o Replace(SubSeq(t, i + Len(old), Len(t)), old, new)

\* number of non-overlapping occurrences of p in t (t.count(p))
RECURSIVE Count(_, _)
Count(t, p) ==
  LET i == Find(t, p, 1) IN
  IF i = 0 THEN 0 ELSE 1 + Count(SubSeq(t, i + Len(p), Len(t)), p)

\* sep.join(parts)
RECURSIVE Join(_, _)
Join(parts, sep) ==
  IF Len(parts) = 0 THEN <<>>
  ELSE IF Len(parts) = 1 THEN parts[1]
  ELSE parts[1] \o sep \o Join(Tail(parts), sep)

Whitespace == {" ", "\n", "\t"}

LStrip(t) == SubSeq(t, First(1, Len(t) + 1, LAMBDA j : j > Len(t) \/ t[j] \notin Whitespace), Len(t))

RStrip(t) == SubSeq(t, 1, Last(1, Len(t), LAMBDA j : t[j] \notin Whitespace))

\* t.strip()
Strip(t) == RStrip(LStrip(t))

UpperCase == <<"A","B","C","D","E","F","G","H","I","J","K","L","M","N","O","P","Q","R","S","T","U","V","W","X","Y","Z">>
LowerCase == <<"a","b","c","d","e","f","g","h","i","j","k","l","m","n","o","p","q","r","s","t","u","v","w","x","y","z">>
Digits == {"0","1","2","3","4","5","6","7","8","9"}

LowerChar(c) ==
  IF \E k \in 1..26 : UpperCase[k] = c
  THEN LowerCase[CHOOSE k \in 1..26 : UpperCase[k] = c]
  ELSE c

UpperChar(c) ==
  IF \E k \in 1..26 : LowerCase[k] = c
  THEN UpperCase[CHOOSE k \in 1..26 : LowerCase[k] = c]
  ELSE c

\* t.lower()
Lower(t) == [k \in 1..Len(t) |-> LowerChar(t[k])]

\* t.isdigit()
IsDigit(t) == t # <<>> /\ \A k \in 1..Len(t) : t[k] \in Digits

\* a regular-expression word character (\w)
IsWordChar(c) == c \in Digits \/ c = "_" \/ (\E k \in 1..26 : UpperCase[k] = c \/ LowerCase[k] = c)

\* t.splitlines(), for texts whose only line break is "\n"
RECURSIVE SplitLines(_)
SplitLines(t) ==
  LET i == Find(t, <<"\n">>, 1) IN
  IF t = <<>> THEN <<>>
  ELSE IF i = 0 THEN <<t>>
  ELSE <<SubSeq(t, 1, i - 1)>> \o SplitLines(SubSeq(t, i + 1, Len(t)))

(***************************************************************************)
(* Python values                                                           *)
(***************************************************************************)
None_ == [type |-> "None"]
EmptyDict == [type |-> "{}"]

\* isinstance(v, dict), for a value that is a dict, a wrapped str or None
IsDict(v) == v.type \notin {"None", "str"}

\* d.get(k, default)
Get(d, k, default) == IF k \in DOMAIN d THEN d[k] ELSE default

\* the wrapped str of an Element's children list
Str_(text) == [type |-> "str", value |-> text]

(***************************************************************************)
(* Syntax-tree nodes as the parser produces them (esprima, ESTree keys).   *)
(* Position keys (loc, range) and boolean flags carry no node and are      *)
(* left out.                                                               *)
(***************************************************************************)
Identifier(name) == [type |-> "Identifier", name |-> name]
\* vtype is the Python type of the literal's value: "int", "str", "bool" or
\* "NoneType"; value is the text of str(value)
Literal(vtype, value) == [type |-> "Literal", vtype |-> vtype, value |-> value]
MemberExpression(object, property) == [type |-> "MemberExpression", object |-> object, property |-> property]
CallExpression(callee, arguments) == [type |-> "CallExpression", callee |-> callee, arguments |-> arguments]
ArrowFunctionExpression(params, body) == [type |-> "ArrowFunctionExpression", params |-> params, body |-> body]
FunctionExpression(params, body) == [type |-> "FunctionExpression", params |-> params, body |-> body]
BinaryExpression(operator, left, right) == [type |-> "BinaryExpression", operator |-> operator, left |-> left, right |-> right]
ArrayExpression(elements) == [type |-> "ArrayExpression", elements |-> elements]
SpreadElement(argument) == [type |-> "SpreadElement", argument |-> argument]
ArrayPattern(elements) == [type |-> "ArrayPattern", elements |-> elements]
VariableDeclarator(id, init) == [type |-> "VariableDeclarator", id |-> id, init |-> init]
VariableDeclaration(declarations) == [type |-> "VariableDeclaration", declarations |-> declarations]
ReturnStatement(argument) == [type |-> "ReturnStatement", argument |-> argument]
ExpressionStatement(expression) == [type |-> "ExpressionStatement", expression |-> expression]
IfStatement(test, consequent, alternate) == [type |-> "IfStatement", test |-> test, consequent |-> consequent, alternate |-> alternate]
BlockStatement(body) == [type |-> "BlockStatement", body |-> body]
FunctionDeclaration(id, params, body) == [type |-> "FunctionDeclaration", id |-> id, params |-> params, body |-> body]
ImportDeclaration == [type |-> "ImportDeclaration"]
ExportDefaultDeclaration(declaration) == [type |-> "ExportDefaultDeclaration", declaration |-> declaration]
Program(body) == [type |-> "Program", body |-> body]
JSXIdentifier(name) == [type |-> "JSXIdentifier", name |-> name]
JSXAttribute(name, value) == [type |-> "JSXAttribute", name |-> JSXIdentifier(name), value |-> value]
JSXExpressionContainer(expression) == [type |-> "JSXExpressionContainer", expression |-> expression]
JSXText(value) == [type |-> "JSXText", value |-> value]
JSXOpeningElement(name, attributes) == [type |-> "JSXOpeningElement", name |-> JSXIdentifier(name), attributes |-> attributes]
JSXElement(name, attributes, children) ==
  [type |-> "JSXElement", openingElement |-> JSXOpeningElement(name, attributes), children |-> children]
\* the other parser output EventRules supports: the element itself carries an
\* "attributes" list of {name: str, value: node} dicts
FlatAttribute(name, value) == [type |-> "{}", name |-> name, value |-> value]
JSXElementFlat(name, attributes, children, flat) ==
  [type |-> "JSXElement", openingElement |-> JSXOpeningElement(name, attributes), children |-> children,
   attributes |-> flat]

(***************************************************************************)
(* Python built-ins on nodes                                               *)
(***************************************************************************)
\* repr(value) of a Literal's value
PyRepr(lit) ==
  IF "vtype" \notin DOMAIN lit THEN S("''")
  ELSE IF lit.vtype = "str" THEN S("'") \o lit.value \o S("'")
  ELSE lit.value

\* str(value) of a Literal's value
PyStr(lit) == IF "value" \in DOMAIN lit THEN lit.value ELSE S("")

\* str(node) of a dict or None: the dict's repr, abridged after its first key
PyStrNode(node) ==
  IF node.type = "None" THEN S("None")
  ELSE IF node.type = "{}" THEN S("{}")
  ELSE S("{'type': '") \o Chars[node.type] \o S("', ...}")

\* the marker of a call that raised
Raise_ == [type |-> "raise"]
Raised(v) == v.type = "raise"

\* a dict that keeps insertion order, as a sequence of [key, value] pairs
DictHas(d, k) == \E n \in 1..Len(d) : d[n].key = k
DictGet(d, k) == d[CHOOSE n \in 1..Len(d) : d[n].key = k].value
DictSet(d, k, v) ==
  IF DictHas(d, k)
  THEN [n \in 1..Len(d) |-> IF d[n].key = k THEN [key |-> k, value |-> v] ELSE d[n]]
  ELSE Append(d, [key |-> k, value |-> v])

\* whether the "body" of a node of this type is a list of statements (a
\* BlockStatement, a Program) or a single node (a function)
BodyIsList(node) == node.type \in {"BlockStatement", "Program"}

(***************************************************************************)
(* HooksRules (transformer/rules/hooks_rules.py)                           *)
(***************************************************************************)
RECURSIVE HooksRules_node_to_string(_)
HooksRules_nodes_to_strings(nodes) == [n \in 1..Len(nodes) |-> HooksRules_node_to_string(nodes[n])]

HooksRules_node_to_string(node) ==
  IF IsDict(node) THEN
    CASE node.type = "ArrayExpression" ->
           S("[") \o Join(HooksRules_nodes_to_strings(Get(node, "elements", <<>>)), S(", ")) \o S("]")
      [] node.type = "Literal" -> PyRepr(node)
      [] node.type = "Identifier" -> Get(node, "name", S(""))
      [] node.type = "StringLiteral" -> PyRepr(node)
      [] node.type = "NumericLiteral" -> PyStr(node)
      [] node.type = "BooleanLiteral" -> PyStr(node)
      [] node.type = "CallExpression" ->
           HooksRules_node_to_string(Get(node, "callee", EmptyDict)) \o S("(")
             \o Join(HooksRules_nodes_to_strings(Get(node, "arguments", <<>>)), S(", ")) \o S(")")
      [] OTHER -> PyStrNode(node)
  ELSE PyStrNode(node)

infer_type(initial_value) ==
  IF initial_value = <<>> THEN S("any")
  ELSE IF StartsWith(initial_value, S("[")) /\ EndsWith(initial_value, S("]")) THEN
    IF Contains(Lower(initial_value), S("string")) \/ StartsWith(initial_value, S("['")) THEN S("string[]")
    ELSE IF Contains(Lower(initial_value), S("number")) THEN S("number[]")
    ELSE S("any[]")
  ELSE IF StartsWith(initial_value, S("\"")) \/ StartsWith(initial_value, S("'")) THEN S("string")
  ELSE IF IsDigit(Replace(initial_value, S("."), S(""))) THEN S("number")
  ELSE IF initial_value \in {S("true"), S("false")} THEN S("boolean")
  ELSE IF initial_value = S("null") \/ initial_value = S("undefined") THEN S("any")
  ELSE S("any")

extract_initial_value(init_node) ==
  IF IsDict(init_node) /\ Len(Get(init_node, "arguments", <<>>)) > 0
  THEN HooksRules_node_to_string(init_node.arguments[1])
  ELSE S("")

is_usestate_call(declaration) ==
  /\ IsDict(declaration)
  /\ IsDict(Get(declaration, "init", EmptyDict))
  /\ IsDict(Get(Get(declaration, "init", EmptyDict), "callee", EmptyDict))
  /\ Get(Get(Get(declaration, "init", EmptyDict), "callee", EmptyDict), "name", S("")) = S("useState")

\* elements[k].get("name", "") raises AttributeError when the slot is None
parse_usestate(declaration) ==
  LET id_node == Get(declaration, "id", EmptyDict)
      elements == IF id_node.type = "ArrayPattern" THEN Get(id_node, "elements", <<>>) ELSE <<>>
      init == Get(declaration, "init", EmptyDict)
      initial_value == extract_initial_value(init)
  IN IF \E k \in 1..Len(elements) : k <= 2 /\ elements[k].type = "None" THEN Raise_
     ELSE [type |-> "useState",
           stateName |-> IF Len(elements) >= 1 THEN Get(elements[1], "name", S("")) ELSE S(""),
           setterName |-> IF Len(elements) >= 2 THEN Get(elements[2], "name", S("")) ELSE S(""),
           initialValue |-> initial_value,
           valueType |-> infer_type(initial_value)]

RECURSIVE find_hooks_in_statements(_), find_hooks_in_body(_, _)
\* body_is_list: isinstance(body, list), else body is a dict
find_hooks_in_body(body, body_is_list) ==
  IF body_is_list THEN
    IF Len(body) = 0 THEN <<>>
    ELSE find_hooks_in_statements(<<Head(body)>>) \o find_hooks_in_body(Tail(body), TRUE)
  ELSE IF IsDict(body) THEN find_hooks_in_statements(<<body>>)
  ELSE <<>>

find_hooks_in_statements(statements) ==
  IF Len(statements) = 0 THEN <<>>
  ELSE
    LET stmt == Head(statements)
        decls == Get(stmt, "declarations", <<>>)
        here ==
          IF ~IsDict(stmt) THEN <<>>
          ELSE IF stmt.type = "VariableDeclaration" THEN
            [n \in 1..Len(SelectSeq(decls, is_usestate_call)) |->
               parse_usestate(SelectSeq(decls, is_usestate_call)[n])]
          ELSE IF "body" \in DOMAIN stmt THEN find_hooks_in_body(stmt.body, BodyIsList(stmt))
          ELSE <<>>
    IN here \o find_hooks_in_statements(Tail(statements))

\* a FunctionDeclaration always has the key "body"; the "components" and
\* "statements" keys of other parser outputs do not occur on it
extract_usestate_hooks(react_ast) ==
  IF IsDict(react_ast) /\ "body" \in DOMAIN react_ast
  THEN find_hooks_in_body(react_ast.body, BodyIsList(react_ast))
  ELSE <<>>

transform_usestate(hook, angular_ast) ==
  IF hook.stateName = <<>> THEN angular_ast
  ELSE
    LET property_def == [name |-> hook.stateName, type |-> hook.valueType,
                         initialValue |-> hook.initialValue, decorator |-> S("")]
        with_property == [angular_ast EXCEPT !.class.properties = Append(@, property_def)]
    IN IF hook.setterName # <<>>
       THEN [with_property EXCEPT !.setterMappings = DictSet(@, hook.setterName, hook.stateName)]
       ELSE with_property

RECURSIVE transform_usestate_all(_, _)
transform_usestate_all(hooks, angular_ast) ==
  IF Len(hooks) = 0 THEN angular_ast
  ELSE transform_usestate_all(Tail(hooks), transform_usestate(Head(hooks), angular_ast))

\* HooksRules.transform: every hook is parsed before the first one is applied
HooksRules_transform(react_ast, angular_ast) ==
  LET hooks == extract_usestate_hooks(react_ast) IN
  IF \E n \in 1..Len(hooks) : Raised(hooks[n]) THEN Raise_
  ELSE transform_usestate_all(hooks, angular_ast)

(***************************************************************************)
(* ComponentRules (transformer/rules/component_rules.py)                   *)
(***************************************************************************)
RECURSIVE ComponentRules_node_to_string(_), statements_to_string(_)
ComponentRules_nodes_to_strings(nodes) == [n \in 1..Len(nodes) |-> ComponentRules_node_to_string(nodes[n])]

statements_to_string(statements) == Join(ComponentRules_nodes_to_strings(statements), S("\n    "))

ComponentRules_node_to_string(node) ==
  IF IsDict(node) THEN
    CASE node.type = "IfStatement" ->
           LET test == ComponentRules_node_to_string(Get(node, "test", EmptyDict))
               consequent == ComponentRules_node_to_string(Get(node, "consequent", EmptyDict))
               alternate == Get(node, "alternate", None_)
           IN IF alternate.type # "None"
              THEN S("if (") \o test \o S(") {\n    ") \o consequent \o S("\n} else {\n    ")
                     \o ComponentRules_node_to_string(alternate) \o S("\n}")
              ELSE S("if (") \o test \o S(") {\n    ") \o consequent \o S("\n}")
      [] node.type = "ExpressionStatement" -> ComponentRules_node_to_string(Get(node, "expression", EmptyDict))
      [] node.type = "CallExpression" ->
           ComponentRules_node_to_string(Get(node, "callee", EmptyDict)) \o S("(")
             \o Join(ComponentRules_nodes_to_strings(Get(node, "arguments", <<>>)), S(", ")) \o S(")")
      [] node.type = "MemberExpression" ->
           ComponentRules_node_to_string(Get(node, "object", EmptyDict)) \o S(".")
             \o ComponentRules_node_to_string(Get(node, "property", EmptyDict))
      [] node.type = "Identifier" -> Get(node, "name", S(""))
      [] node.type = "Literal" -> PyRepr(node)
      [] node.type = "ArrayExpression" ->
           S("[") \o Join(ComponentRules_nodes_to_strings(Get(node, "elements", <<>>)), S(", ")) \o S("]")
      [] node.type = "SpreadElement" -> S("...") \o ComponentRules_node_to_string(Get(node, "argument", EmptyDict))
      [] node.type = "BinaryExpression" ->
           ComponentRules_node_to_string(Get(node, "left", EmptyDict)) \o S(" ") \o Get(node, "operator", S(""))
             \o S(" ") \o ComponentRules_node_to_string(Get(node, "right", EmptyDict))
      [] node.type = "BlockStatement" -> statements_to_string(Get(node, "body", <<>>))
      [] OTHER -> PyStrNode(node)
  ELSE PyStrNode(node)

extract_method_body(body_node) ==
  IF IsDict(body_node) THEN
    IF body_node.type = "BlockStatement" THEN statements_to_string(Get(body_node, "body", <<>>))
    ELSE ComponentRules_node_to_string(body_node)
  ELSE S("")

\* the name of one parameter, "" when it has none
parameter_name(param) ==
  IF Get(param, "name", S("")) # <<>> THEN param.name
  ELSE Get(Get(param, "id", EmptyDict), "name", S(""))

extract_parameters(params) ==
  LET named == SelectSeq(params, LAMBDA param : IsDict(param) /\ parameter_name(param) # <<>>)
  IN [n \in 1..Len(named) |-> parameter_name(named[n])]

\* _parse_arrow_function, _parse_function_expression and
\* _parse_function_declaration have the same body
parse_function(name, func_node) ==
  [name |-> name,
   parameters |-> extract_parameters(Get(func_node, "params", <<>>)),
   body |-> extract_method_body(Get(func_node, "body", EmptyDict)),
   returnType |-> S("void")]

\* the methods of the declarators of one VariableDeclaration
RECURSIVE find_methods_in_declarations(_)
find_methods_in_declarations(declarations) ==
  IF Len(declarations) = 0 THEN <<>>
  ELSE
    LET decl == Head(declarations)
        init == Get(decl, "init", EmptyDict)
        method_name == Get(Get(decl, "id", EmptyDict), "name", S(""))
        here ==
          IF IsDict(init) /\ init.type \in {"ArrowFunctionExpression", "FunctionExpression"}
             /\ method_name # <<>>
          THEN <<parse_function(method_name, init)>>
          ELSE <<>>
    IN here \o find_methods_in_declarations(Tail(declarations))

RECURSIVE find_methods_in_statements(_), find_methods_in_body(_, _)
find_methods_in_body(body, body_is_list) ==
  IF body_is_list THEN
    IF Len(body) = 0 THEN <<>>
    ELSE find_methods_in_statements(<<Head(body)>>) \o find_methods_in_body(Tail(body), TRUE)
  ELSE IF IsDict(body) THEN find_methods_in_statements(<<body>>)
  ELSE <<>>

find_methods_in_statements(statements) ==
  IF Len(statements) = 0 THEN <<>>
  ELSE
    LET stmt == Head(statements)
        method_name == Get(Get(stmt, "id", EmptyDict), "name", S(""))
        here ==
          IF ~IsDict(stmt) THEN <<>>
          ELSE IF stmt.type = "VariableDeclaration" THEN
            find_methods_in_declarations(Get(stmt, "declarations", <<>>))
          ELSE IF stmt.type = "FunctionDeclaration" THEN
            IF method_name # <<>> THEN <<parse_function(method_name, stmt)>> ELSE <<>>
          ELSE IF "body" \in DOMAIN stmt THEN find_methods_in_body(stmt.body, BodyIsList(stmt))
          ELSE <<>>
    IN here \o find_methods_in_statements(Tail(statements))

\* the "statements" and "methods" keys of other parser outputs do not occur
\* on a FunctionDeclaration, which always has the key "body"
extract_methods(react_ast) ==
  IF IsDict(react_ast) /\ "body" \in DOMAIN react_ast
  THEN find_methods_in_body(react_ast.body, BodyIsList(react_ast))
  ELSE <<>>

\* the @Input() properties of the "props" key; the dict has no "initialValue"
\* key, which every reader takes as the empty text
props_to_properties(props) ==
  [n \in 1..Len(props) |->
     [name |-> props[n], type |-> S("Input"), initialValue |-> S(""), decorator |-> S("@Input()")]]

\* a transform that builds the class afresh instead of adding to the one it is given
ComponentRules_transform_afresh(react_ast, angular_ast) ==
  [angular_ast EXCEPT !.class = [name |-> S(""), properties |-> <<>>,
                                 methods |-> extract_methods(react_ast), lifecycleHooks |-> <<>>]]

ComponentRules_transform(react_ast, angular_ast) ==
  LET named ==
        IF "components" \in DOMAIN react_ast /\ Len(react_ast.components) > 0
        THEN [angular_ast EXCEPT !.class.name = react_ast.components[1]]
        ELSE angular_ast
      with_props ==
        IF "props" \in DOMAIN react_ast
        THEN [named EXCEPT !.class.properties = @ \o props_to_properties(react_ast.props)]
        ELSE named
  IN [with_props EXCEPT !.class.methods = @ \o extract_methods(react_ast)]

(***************************************************************************)
(* Tree walks.  The code walks a node with `for v in node.values()` and a  *)
(* list item by item; Values(node) is the nodes met that way, in the key   *)
(* order of the parser's node classes, lists flattened in place.  Values   *)
(* that are neither dict nor list end every walk at once and are left out. *)
(***************************************************************************)
Values(node) ==
  CASE node.type = "Program" -> node.body
    [] node.type = "FunctionDeclaration" -> <<node.id>> \o node.params \o <<node.body>>
    [] node.type = "ExportDefaultDeclaration" -> <<node.declaration>>
    [] node.type = "FunctionExpression" -> node.params \o <<node.body>>
    [] node.type = "ArrowFunctionExpression" -> node.params \o <<node.body>>
    [] node.type = "BlockStatement" -> node.body
    [] node.type = "VariableDeclaration" -> node.declarations
    [] node.type = "VariableDeclarator" -> <<node.id, node.init>>
    [] node.type = "ArrayPattern" -> node.elements
    [] node.type = "ArrayExpression" -> node.elements
    [] node.type = "SpreadElement" -> <<node.argument>>
    [] node.type = "CallExpression" -> <<node.callee>> \o node.arguments
    [] node.type = "MemberExpression" -> <<node.object, node.property>>
    [] node.type = "BinaryExpression" -> <<node.left, node.right>>
    [] node.type = "ReturnStatement" -> <<node.argument>>
    [] node.type = "ExpressionStatement" -> <<node.expression>>
    [] node.type = "IfStatement" -> <<node.test, node.consequent, node.alternate>>
    [] node.type = "JSXElement" ->
         <<node.openingElement>> \o node.children \o Get(node, "attributes", <<>>)
    [] node.type = "JSXOpeningElement" -> <<node.name>> \o node.attributes
    [] node.type = "JSXAttribute" -> <<node.name, node.value>>
    [] node.type = "JSXExpressionContainer" -> <<node.expression>>
    [] node.type = "{}" -> IF "value" \in DOMAIN node THEN <<node.value>> ELSE <<>>
    [] OTHER -> <<>>

(***************************************************************************)
(* JSXRules (transformer/rules/jsx_rules.py)                               *)
(***************************************************************************)
RECURSIVE find_root_jsx(_), find_root_jsx_in(_)
\* the loop `for v in ...: found = _find_root_jsx(v); if found: return found`
find_root_jsx_in(nodes) ==
  IF Len(nodes) = 0 THEN None_
  ELSE LET found == find_root_jsx(Head(nodes))
       IN IF found.type # "None" THEN found ELSE find_root_jsx_in(Tail(nodes))

find_root_jsx(node) ==
  IF ~IsDict(node) THEN None_
  ELSE IF node.type = "ReturnStatement" /\ IsDict(Get(node, "argument", None_))
          /\ node.argument.type = "JSXElement"
  THEN node.argument
  ELSE find_root_jsx_in(Values(node))

RECURSIVE expression_to_string(_)
expressions_to_strings(nodes) == [n \in 1..Len(nodes) |-> expression_to_string(nodes[n])]

expression_to_string(expr) ==
  IF ~IsDict(expr) THEN S("")
  ELSE
    CASE expr.type = "Identifier" -> Get(expr, "name", S(""))
      [] expr.type = "Literal" -> PyStr(expr)
      [] expr.type = "MemberExpression" ->
           LET obj == expression_to_string(Get(expr, "object", None_))
               prop == expression_to_string(Get(expr, "property", None_))
           IN IF obj # <<>> /\ prop # <<>> THEN obj \o S(".") \o prop
              ELSE IF obj # <<>> THEN obj ELSE prop
      [] expr.type = "CallExpression" ->
           LET callee_str == expression_to_string(Get(expr, "callee", None_))
               args == Get(expr, "arguments", <<>>)
           IN IF Len(args) > 0
              THEN callee_str \o S("(") \o Join(expressions_to_strings(args), S(", ")) \o S(")")
              ELSE callee_str
      [] expr.type = "ArrowFunctionExpression" ->
           LET params == SelectSeq(Get(expr, "params", <<>>), IsDict)
               pnames == [n \in 1..Len(params) |-> Get(params[n], "name", S(""))]
           IN S("(") \o Join(pnames, S(", ")) \o S(") => ...")
      [] OTHER -> S("")

extract_attribute_value(val) ==
  IF IsDict(val) THEN
    IF val.type = "Literal" THEN PyStr(val)
    ELSE IF val.type = "JSXExpressionContainer" THEN expression_to_string(Get(val, "expression", EmptyDict))
    ELSE S("")
  ELSE S("")

RECURSIVE convert_attributes(_)
convert_attributes(attributes) ==
  IF Len(attributes) = 0 THEN <<>>
  ELSE
    LET attr == Head(attributes)
        name_node == Get(attr, "name", EmptyDict)
        value_node == Get(attr, "value", EmptyDict)
        raw_name == Get(name_node, "name", S(""))
        name == IF raw_name = S("className") THEN S("class") ELSE raw_name
        here ==
          IF ~IsDict(attr) \/ ~IsDict(name_node) THEN <<>>
          ELSE IF name = S("key") THEN <<>>
          ELSE IF StartsWith(name, S("on")) THEN <<>>
          ELSE <<[name |-> name, value |-> extract_attribute_value(value_node)]>>
    IN here \o convert_attributes(Tail(attributes))

\* the first parameter's name whatever k is
param_name_first(params, k, placeholder) ==
  IF Len(params) >= 1 /\ IsDict(params[1]) THEN Get(params[1], "name", placeholder) ELSE placeholder

\* the parameter's name, or the placeholder when the callback omits it
param_name_or(params, k, placeholder) ==
  IF Len(params) >= k /\ IsDict(params[k]) THEN Get(params[k], "name", placeholder) ELSE placeholder

\* the first `return <markup>` among the statements of a block body
RECURSIVE returned_jsx(_)
returned_jsx(statements) ==
  IF Len(statements) = 0 THEN None_
  ELSE LET stmt == Head(statements)
       IN IF IsDict(stmt) /\ stmt.type = "ReturnStatement" /\ IsDict(Get(stmt, "argument", None_))
             /\ stmt.argument.type = "JSXElement"
          THEN stmt.argument
          ELSE returned_jsx(Tail(statements))

RECURSIVE convert_jsx_to_angular(_), convert_child(_), convert_children(_),
          convert_map_expression_to_element(_)

\* a converted child is kept unless it is None, "" or []
convert_children(children) ==
  IF Len(children) = 0 THEN <<>>
  ELSE
    LET converted == convert_child(Head(children))
        here ==
          IF converted.type = "None" THEN <<>>
          ELSE IF converted.type = "str" /\ converted.value = <<>> THEN <<>>
          ELSE <<converted>>
    IN here \o convert_children(Tail(children))

convert_jsx_to_angular(jsx_element) ==
  IF ~IsDict(jsx_element) THEN None_
  ELSE
    LET opening == Get(jsx_element, "openingElement", EmptyDict)
        children == Get(jsx_element, "children", <<>>)
        name == Get(opening, "name", EmptyDict)
        tag == IF IsDict(name) THEN Get(name, "name", S("")) ELSE S("")
    IN [type |-> "Element",
        tag |-> IF tag # <<>> THEN tag ELSE S("div"),
        attributes |-> convert_attributes(Get(opening, "attributes", <<>>)),
        children |-> convert_children(children)]

\* JSX children are nodes; the branch for a child that is a raw str is not modelled
convert_child(child) ==
  IF ~IsDict(child) THEN None_
  ELSE
    CASE child.type = "JSXText" -> Str_(Strip(Get(child, "value", S(""))))
      [] child.type = "JSXExpressionContainer" ->
           LET expr == Get(child, "expression", EmptyDict)
               callee == Get(expr, "callee", EmptyDict)
               prop == Get(callee, "property", EmptyDict)
           IN IF ~IsDict(expr) THEN Str_(S(""))
              ELSE IF expr.type = "CallExpression" /\ IsDict(callee) /\ callee.type = "MemberExpression"
                      /\ IsDict(prop) /\ Get(prop, "name", S("")) = S("map")
              THEN convert_map_expression_to_element(expr)
              ELSE Str_(S("{{ ") \o expression_to_string(expr) \o S(" }}"))
      [] child.type = "JSXElement" -> convert_jsx_to_angular(child)
      [] OTHER -> None_

convert_map_expression_to_element(expr) ==
  LET callee == Get(expr, "callee", EmptyDict)
      obj == Get(callee, "object", EmptyDict)
      array_name == IF IsDict(callee) /\ IsDict(obj) THEN Get(obj, "name", S("")) ELSE S("")
      args == Get(expr, "arguments", <<>>)
      fn == args[1]
      params == Get(fn, "params", <<>>)
      item_name == param_name_or(params, 1, S("item"))
      index_name == param_name_or(params, 2, S("index"))
      ng_for == [array |-> array_name, item |-> item_name, index |-> index_name]
      body == Get(fn, "body", None_)
      jsx_body ==
        IF IsDict(body) /\ body.type = "JSXElement" THEN body
        ELSE IF IsDict(body) /\ body.type = "BlockStatement" THEN returned_jsx(Get(body, "body", <<>>))
        ELSE None_
      converted_inner == convert_jsx_to_angular(jsx_body)
  IN IF ~IsDict(expr) THEN None_
     ELSE IF Len(args) = 0 THEN None_
     ELSE IF ~IsDict(fn) THEN None_
     ELSE IF jsx_body.type = "None" THEN
       [type |-> "Element", tag |-> S("li"), attributes |-> <<>>, ngFor |-> ng_for,
        children |-> <<Str_(S("{{ ") \o item_name \o S(" }}"))>>]
     ELSE
       [type |-> "Element", tag |-> converted_inner.tag, attributes |-> converted_inner.attributes,
        children |-> converted_inner.children, ngFor |-> ng_for]

JSXRules_transform(react_ast, angular_ast) ==
  LET root_jsx == find_root_jsx(react_ast) IN
  IF root_jsx.type = "None" THEN angular_ast
  ELSE [angular_ast EXCEPT !.template.elements = Append(@, convert_jsx_to_angular(root_jsx))]

(***************************************************************************)
(* EventRules (transformer/rules/event_rules.py)                           *)
(* Attribute values are nodes or None in every tree modelled here; the     *)
(* branches for values a parser has already serialised to str are not      *)
(* modelled.                                                               *)
(***************************************************************************)
EVENT_PREFIX_MAP ==
  <<[key |-> S("onClick"), value |-> S("click")],
    [key |-> S("onChange"), value |-> S("change")],
    [key |-> S("onSubmit"), value |-> S("submit")],
    [key |-> S("onFocus"), value |-> S("focus")],
    [key |-> S("onBlur"), value |-> S("blur")]>>

RECURSIVE collect_jsx_nodes(_), collect_jsx_nodes_in(_)
collect_jsx_nodes_in(nodes) ==
  IF Len(nodes) = 0 THEN <<>>
  ELSE collect_jsx_nodes(Head(nodes)) \o collect_jsx_nodes_in(Tail(nodes))

\* pre-order: the node itself, then what its values hold
collect_jsx_nodes(node) ==
  IF ~IsDict(node) THEN <<>>
  ELSE (IF node.type = "JSXElement" THEN <<node>> ELSE <<>>) \o collect_jsx_nodes_in(Values(node))

normalize_attribute_value(raw) ==
  IF IsDict(raw) /\ raw.type = "JSXExpressionContainer" /\ "expression" \in DOMAIN raw
  THEN raw.expression
  ELSE raw

RECURSIVE ast_to_string(_)
asts_to_strings(nodes) == [n \in 1..Len(nodes) |-> ast_to_string(nodes[n])]

ast_to_string(node) ==
  IF ~IsDict(node) THEN PyStrNode(node)
  ELSE
    CASE node.type = "CallExpression" ->
           ast_to_string(Get(node, "callee", EmptyDict)) \o S("(")
             \o Join(asts_to_strings(Get(node, "arguments", <<>>)), S(", ")) \o S(")")
      [] node.type = "MemberExpression" ->
           ast_to_string(Get(node, "object", EmptyDict)) \o S(".") \o ast_to_string(Get(node, "property", EmptyDict))
      [] node.type = "Identifier" -> Get(node, "name", S(""))
      [] node.type = "Literal" -> PyRepr(node)
      [] node.type = "ArrowFunctionExpression" ->
           LET params == Get(node, "params", <<>>)
               names == [n \in 1..Len(params) |-> Get(params[n], "name", S(""))]
           IN S("(") \o Join(names, S(", ")) \o S(") => ") \o ast_to_string(Get(node, "body", EmptyDict))
      [] node.type = "JSXExpressionContainer" /\ "expression" \in DOMAIN node -> ast_to_string(node.expression)
      [] OTHER -> PyStrNode(node)

transform_arrow_function_ast(arrow_func, setter_mappings) ==
  LET params == Get(arrow_func, "params", <<>>)
      body == Get(arrow_func, "body", EmptyDict)
      event_param == IF Len(params) > 0 THEN Get(params[1], "name", S("e")) ELSE S("e")
      callee == Get(body, "callee", EmptyDict)
      setter_name == Get(callee, "name", S(""))
      state_name == DictGet(setter_mappings, setter_name)
      args == Get(body, "arguments", <<>>)
  IN IF IsDict(body) /\ body.type = "CallExpression" /\ callee.type = "Identifier"
        /\ DictHas(setter_mappings, setter_name)
     THEN
       IF Len(args) > 0 /\ Get(args[1], "type", "") = "MemberExpression"
       THEN state_name \o S(" = $event.target.value")
       ELSE IF Len(args) > 0 /\ Get(args[1], "type", "") = "Identifier"
       THEN state_name \o S(" = $event")
       ELSE state_name \o S(" = ") \o (IF Len(args) > 0 THEN ast_to_string(args[1]) ELSE S(""))
     ELSE Replace(ast_to_string(body), event_param, S("$event"))

RECURSIVE transform_handler(_, _)
transform_handler(handler_value, setter_mappings) ==
  IF IsDict(handler_value) THEN
    CASE handler_value.type = "ArrowFunctionExpression" ->
           transform_arrow_function_ast(handler_value, setter_mappings)
      [] handler_value.type = "Identifier" -> Get(handler_value, "name", S("")) \o S("()")
      [] handler_value.type = "CallExpression" -> ast_to_string(handler_value)
      [] handler_value.type = "JSXExpressionContainer" /\ "expression" \in DOMAIN handler_value ->
           transform_handler(handler_value.expression, setter_mappings)
      [] OTHER -> ast_to_string(handler_value)
  ELSE PyStrNode(handler_value)

transform_event(react_event) ==
  IF DictHas(EVENT_PREFIX_MAP, react_event)
  THEN S("(") \o DictGet(EVENT_PREFIX_MAP, react_event) \o S(")")
  ELSE IF StartsWith(react_event, S("on"))
  THEN S("(") \o Lower(SubSeq(react_event, 3, Len(react_event))) \o S(")")
  ELSE react_event

\* the last attribute of the list with this name, None_ when there is none
RECURSIVE last_attribute_named(_, _)
last_attribute_named(attributes, name) ==
  IF Len(attributes) = 0 THEN None_
  ELSE IF Get(attributes[Len(attributes)], "name", S("")) = name THEN attributes[Len(attributes)]
  ELSE last_attribute_named(SubSeq(attributes, 1, Len(attributes) - 1), name)

detect_two_way_binding(attributes, setter_mappings) ==
  LET value_attr == last_attribute_named(attributes, S("value"))
      on_change_attr == last_attribute_named(attributes, S("onChange"))
      value_val == normalize_attribute_value(Get(value_attr, "value", None_))
      on_change_val == normalize_attribute_value(Get(on_change_attr, "value", None_))
      \* None stands for "no state name": it equals no value of the setter map
      has_state_name == IsDict(value_val) /\ value_val.type = "Identifier" /\ "name" \in DOMAIN value_val
      state_name == value_val.name
      body == Get(on_change_val, "body", None_)
      callee == Get(body, "callee", EmptyDict)
      setter_name == Get(callee, "name", S(""))
      setter_id == Get(on_change_val, "name", S(""))
      found == [type |-> "twoWay", property |-> state_name, value |-> state_name]
  IN IF value_attr.type = "None" \/ on_change_attr.type = "None" THEN None_
     ELSE IF IsDict(on_change_val) /\ on_change_val.type = "ArrowFunctionExpression"
             /\ IsDict(body) /\ body.type = "CallExpression" /\ callee.type = "Identifier"
             /\ DictHas(setter_mappings, setter_name) /\ has_state_name
             /\ DictGet(setter_mappings, setter_name) = state_name
     THEN found
     ELSE IF IsDict(on_change_val) /\ on_change_val.type = "Identifier"
             /\ DictHas(setter_mappings, setter_id) /\ has_state_name
             /\ DictGet(setter_mappings, setter_id) = state_name
     THEN found
     ELSE None_

\* the event bindings of the attributes of one element
RECURSIVE event_bindings(_, _)
event_bindings(attributes, setter_mappings) ==
  IF Len(attributes) = 0 THEN <<>>
  ELSE
    LET attr == Head(attributes)
        attr_name == Get(attr, "name", S(""))
        handler_value == normalize_attribute_value(attr.value)
        here ==
          IF ~StartsWith(attr_name, S("on")) \/ Len(attr_name) <= 2 THEN <<>>
          ELSE <<[type |-> "event", name |-> transform_event(attr_name),
                  handler |-> transform_handler(handler_value, setter_mappings)]>>
    IN here \o event_bindings(Tail(attributes), setter_mappings)

\* the bindings of the elements, in order: one twoWay binding for an element
\* whose value/onChange pair is detected, else its event bindings
RECURSIVE element_bindings(_, _)
element_bindings(jsx_nodes, setter_mappings) ==
  IF Len(jsx_nodes) = 0 THEN <<>>
  ELSE
    LET attributes == Get(Head(jsx_nodes), "attributes", <<>>)
        two_way_binding == detect_two_way_binding(attributes, setter_mappings)
        here ==
          IF two_way_binding.type # "None" THEN <<two_way_binding>>
          ELSE event_bindings(attributes, setter_mappings)
    IN here \o element_bindings(Tail(jsx_nodes), setter_mappings)

\* the keys "jsx_elements" and "jsx" of other parser outputs do not occur on
\* a FunctionDeclaration: the JSX nodes are collected by the walk
EventRules_transform(react_ast, angular_ast) ==
  LET setter_mappings == angular_ast.setterMappings
      jsx_nodes == IF IsDict(react_ast) THEN collect_jsx_nodes(react_ast) ELSE <<>>
  IN [angular_ast EXCEPT !.template.bindings = @ \o element_bindings(jsx_nodes, setter_mappings)]

(***************************************************************************)
(* HTMLGenerator (generator/html_generator.py)                             *)
(***************************************************************************)
\* text * n
RECURSIVE Repeat(_, _)
Repeat(text, n) == IF n <= 0 THEN <<>> ELSE text \o Repeat(text, n - 1)

\* the value of the first attribute named "id", None_ when there is none
RECURSIVE element_id_of(_)
element_id_of(attributes) ==
  IF Len(attributes) = 0 THEN None_
  ELSE IF Get(Head(attributes), "name", S("")) = S("id") THEN Str_(Get(Head(attributes), "value", S("")))
  ELSE element_id_of(Tail(attributes))

RECURSIVE binding_strs(_, _)
binding_strs(bindings, element_id) ==
  IF Len(bindings) = 0 THEN <<>>
  ELSE
    LET binding == Head(bindings)
        binding_type == Get(binding, "type", "")
        \* `if target and target != element_id: continue`
        skipped ==
          /\ "target" \in DOMAIN binding
          /\ binding.target # <<>>
          /\ (element_id.type = "None" \/ element_id.value # binding.target)
        here ==
          IF skipped THEN <<>>
          ELSE IF binding_type = "event" THEN
            <<S("(") \o Get(binding, "name", S("")) \o S(")=\"") \o Get(binding, "handler", S("")) \o S("\"")>>
          ELSE IF binding_type = "property" THEN
            <<S("[") \o Get(binding, "name", S("")) \o S("]=\"") \o Get(binding, "value", S("")) \o S("\"")>>
          ELSE IF binding_type = "twoWay" /\ Get(binding, "property", S("")) # <<>> THEN
            <<S("[(ngModel)]=\"") \o binding.property \o S("\"")>>
          ELSE <<>>
    IN here \o binding_strs(Tail(bindings), element_id)

get_element_bindings(tag, element, bindings) ==
  binding_strs(bindings, element_id_of(Get(element, "attributes", <<>>)))

\* the parts of the plain attributes; no rule sets "bindingType" on an attribute
RECURSIVE attribute_parts(_, _)
attribute_parts(attributes, two_way_binding) ==
  IF Len(attributes) = 0 THEN <<>>
  ELSE
    LET attr == Head(attributes)
        name == Get(attr, "name", S(""))
        value == Get(attr, "value", S(""))
        here ==
          IF name = S("value") /\ two_way_binding # <<>> THEN <<>>
          ELSE IF value # <<>> THEN <<name \o S("=\"") \o value \o S("\"")>>
          ELSE <<name>>
    IN here \o attribute_parts(Tail(attributes), two_way_binding)

\* attr_parts of _generate_element: directives, bindings set on the element,
\* plain attributes, then the bindings of the template.  No rule sets
\* "ngIf", "twoWayBinding" or "propertyBinding" on an element.
attr_parts(element, bindings) ==
  LET ng_for == Get(element, "ngFor", EmptyDict)
      two_way_binding == Get(element, "twoWayBinding", S(""))
  IN (IF "ngFor" \in DOMAIN element
      THEN <<S("*ngFor=\"let ") \o Get(ng_for, "item", S("item")) \o S(" of ") \o Get(ng_for, "array", S("items"))
               \o S("; let ") \o Get(ng_for, "index", S("i")) \o S(" = index\"")>>
      ELSE <<>>)
     \o (IF "ngIf" \in DOMAIN element /\ element.ngIf # <<>>
         THEN <<S("*ngIf=\"") \o element.ngIf \o S("\"")>> ELSE <<>>)
     \o (IF two_way_binding # <<>> THEN <<S("[(ngModel)]=\"") \o two_way_binding \o S("\"")>> ELSE <<>>)
     \o attribute_parts(Get(element, "attributes", <<>>), two_way_binding)
     \o get_element_bindings(Get(element, "tag", S("div")), element, bindings)

VoidTags == {S("input"), S("img"), S("br"), S("hr"), S("meta"), S("link")}

\* a child that is a str has no .get: generating its parent raises AttributeError
RECURSIVE generate_element_raises(_)
generate_element_raises(element) ==
  \E n \in 1..Len(element.children) :
    element.children[n].type = "str" \/ generate_element_raises(element.children[n])

RECURSIVE generate_element(_, _)
generate_elements(elements, bindings) == [n \in 1..Len(elements) |-> generate_element(elements[n], bindings)]

\* the text of an element none of whose descendants makes the call raise
generate_element(element, bindings) ==
  LET tag == Get(element, "tag", S("div"))
      children == Get(element, "children", <<>>)
      parts == attr_parts(element, bindings)
      attr_str == IF Len(parts) > 0 THEN S(" ") \o Join(parts, S(" ")) ELSE S("")
      indent_str == Repeat(S("  "), Get(element, "indent", 0))
  IN IF Len(children) > 0 THEN
       indent_str \o S("<") \o tag \o attr_str \o S(">\n") \o Join(generate_elements(children, bindings), S("\n"))
         \o S("\n") \o indent_str \o S("</") \o tag \o S(">")
     ELSE IF tag \in VoidTags THEN indent_str \o S("<") \o tag \o attr_str \o S(">")
     ELSE indent_str \o S("<") \o tag \o attr_str \o S("></") \o tag \o S(">")

\* the result of a generate call: its text, or ok = FALSE when it raised
Returned(text) == [ok |-> TRUE, text |-> text]
RaisedResult == [ok |-> FALSE, text |-> <<>>]

HTMLGenerator_generate(angular_ast, component_name) ==
  LET elements == angular_ast.template.elements
      bindings == angular_ast.template.bindings
  IN IF Len(elements) = 0 THEN
       Returned(S("<!-- Generated Angular template -->\n<div class=\"container\">\n  <!-- Add your template content here -->\n</div>"))
     ELSE IF \E n \in 1..Len(elements) : generate_element_raises(elements[n]) THEN RaisedResult
     ELSE Returned(Join(generate_elements(elements, bindings), S("\n")))

(***************************************************************************)
(* CSSGenerator (generator/css_generator.py)                               *)
(***************************************************************************)
RECURSIVE rule_lines(_)
rule_lines(rules) ==
  IF Len(rules) = 0 THEN <<>>
  ELSE <<S("  ") \o Head(rules).key \o S(": ") \o Head(rules).value \o S(";")>> \o rule_lines(Tail(rules))

generate_rule(selector, rules) ==
  IF Len(rules) = 0 THEN S("")
  ELSE Join(<<selector \o S(" {")>> \o rule_lines(rules) \o <<S("}")>>, S("\n"))

CSSGenerator_generate(angular_ast, component_name) ==
  LET styles == angular_ast.styles
  IN IF Len(styles) = 0 THEN Returned(S("/* Styles for ") \o component_name \o S(" component */\n"))
     ELSE Returned(Join([n \in 1..Len(styles) |->
                           generate_rule(Get(styles[n], "selector", S("")), Get(styles[n], "rules", <<>>))],
                        S("\n")))

(***************************************************************************)
(* TypeScriptGenerator (generator/typescript_generator.py):                *)
(* method body normalization.  The regular expressions of the code are     *)
(* matched on characters; a match is [ok, end, group] with end the first   *)
(* position after the match.                                               *)
(***************************************************************************)
NoMatch == [ok |-> FALSE, end |-> 0, group |-> <<>>]

\* \s of a regular expression
RegexSpace == {" ", "\n", "\t", "\r"}

\* the position after the longest run of \s that starts at i
SkipSpace(t, i) ==
  IF i > Len(t) THEN i
  ELSE First(i, Len(t) + 1, LAMBDA j : j > Len(t) \/ t[j] \notin RegexSpace)

\* the position after lits[1] \s* lits[2] \s* ... lits[n] \s* matched from i, 0
\* when they do not match there
RECURSIVE MatchLiterals(_, _, _)
MatchLiterals(t, i, lits) ==
  IF Len(lits) = 0 THEN i
  ELSE IF MatchAt(t, i, Head(lits)) THEN MatchLiterals(t, SkipSpace(t, i + Len(Head(lits))), Tail(lits))
  ELSE 0

\* the least position >= i whose character is in stops, 0 when there is none
FindAny(t, i, stops) == First(i, Len(t), LAMBDA j : t[j] \in stops)

\* decimal text of a natural number
RECURSIVE DecText(_)
DecText(n) ==
  LET digit == <<"0","1","2","3","4","5","6","7","8","9">>[(n % 10) + 1]
  IN IF n < 10 THEN <<digit>> ELSE DecText(n \div 10) \o <<digit>>

\* r"(\".*?\"|'.*?')" at i: a quote, then the next same quote on the line
match_string_literal(t, i) ==
  LET close == FindAny(t, i + 1, {t[i], "\n"})
  IN IF t[i] \in {"\"", "'"} /\ close # 0 /\ t[close] = t[i]
     THEN [ok |-> TRUE, end |-> close + 1, group |-> SubSeq(t, i, close)]
     ELSE NoMatch

placeholder_key(n) == S("__STR_") \o DecText(n) \o S("__")

\* _protect_strings: [text, strings], the k-th string literal of the text
\* replaced by the placeholder of k - 1
RECURSIVE protect_strings(_, _, _)
protect_strings(t, i, strings) ==
  LET j == First(i, Len(t), LAMBDA k : match_string_literal(t, k).ok)
      m == match_string_literal(t, j)
      rest == protect_strings(t, m.end, Append(strings, m.group))
  IN IF j = 0 THEN [text |-> SubSeq(t, i, Len(t)), strings |-> strings]
     ELSE [text |-> SubSeq(t, i, j - 1) \o placeholder_key(Len(strings)) \o rest.text,
           strings |-> rest.strings]

RECURSIVE restore_strings(_, _, _)
restore_strings(t, strings, k) ==
  IF k > Len(strings) THEN t
  ELSE restore_strings(Replace(t, placeholder_key(k - 1), strings[k]), strings, k + 1)

\* \b of a regular expression before position i
WordBoundary(t, i) ==
  (i - 1 >= 1 /\ i - 1 <= Len(t) /\ IsWordChar(t[i - 1])) # (i >= 1 /\ i <= Len(t) /\ IsWordChar(t[i]))

\* rf'(?<!this\.)(?<!\.)\b{ident}\b' at i
match_identifier(t, i, ident) ==
  /\ MatchAt(t, i, ident)
  /\ ~MatchAt(t, i - 5, S("this."))
  /\ ~MatchAt(t, i - 1, S("."))
  /\ WordBoundary(t, i)
  /\ WordBoundary(t, i + Len(ident))

RECURSIVE prefix_identifier(_, _, _)
prefix_identifier(t, i, ident) ==
  LET j == IF Len(ident) > 0 THEN First(i, Len(t), LAMBDA k : match_identifier(t, k, ident)) ELSE 0
  IN IF j = 0 THEN SubSeq(t, i, Len(t))
     ELSE SubSeq(t, i, j - 1) \o S("this.") \o ident \o prefix_identifier(t, j + Len(ident), ident)

RECURSIVE prefix_identifiers(_, _)
prefix_identifiers(t, idents) ==
  IF Len(idents) = 0 THEN t
  ELSE prefix_identifiers(prefix_identifier(t, 1, Head(idents)), Tail(idents))

\* the distinct texts of a list, first occurrence first
RECURSIVE Distinct(_)
Distinct(texts) ==
  IF Len(texts) = 0 THEN <<>>
  ELSE LET init == Distinct(SubSeq(texts, 1, Len(texts) - 1))
           last == texts[Len(texts)]
       IN IF \E n \in 1..Len(init) : init[n] = last THEN init ELSE Append(init, last)

\* the texts of length len, in list order
OfLength(texts, len) == SelectSeq(texts, LAMBDA x : Len(x) = len)

\* sorted(set(identifiers), key=lambda x: -len(x)): longest first; identifiers
\* of one length are substituted independently of each other, so their order
\* (the set's) is taken to be the list's
RECURSIVE longest_first(_, _)
longest_first(idents, len) ==
  IF len < 0 THEN <<>> ELSE OfLength(idents, len) \o longest_first(idents, len - 1)

longest_len(texts) == IF Len(texts) = 0 THEN 0 ELSE CHOOSE m \in {Len(texts[n]) : n \in 1..Len(texts)} :
                                                  \A n \in 1..Len(texts) : Len(texts[n]) <= m

prefix_this_to_identifiers(text, identifiers) ==
  IF Len(identifiers) = 0 THEN text
  ELSE
    LET protected == protect_strings(text, 1, <<>>)
        idents == longest_first(Distinct(identifiers), longest_len(identifiers))
    IN restore_strings(prefix_identifiers(protected.text, idents), protected.strings, 1)

\* rf'{setter}\(\s*\[\s*\.\.\.{state}\s*,\s*([^\]]+)\]\s*\)' at i
\* from the comma on: the group up to the first "]", then \s*\)
match_spread_close(t, comma, close) ==
  IF close > comma + 1 /\ MatchLiterals(t, close, <<S("]"), S(")")>>) # 0
  THEN [ok |-> TRUE, end |-> SkipSpace(t, close + 1) + 1, group |-> SubSeq(t, comma + 1, close - 1)]
  ELSE NoMatch

match_spread_comma(t, lead) ==
  IF lead # 0 /\ MatchAt(t, lead, S(",")) THEN match_spread_close(t, lead, FindAny(t, lead + 1, {"]"}))
  ELSE NoMatch

match_spread(t, i, setter, state) ==
  match_spread_comma(t, MatchLiterals(t, i, <<setter \o S("("), S("["), S("...") \o state>>))

\* rf'{setter}\(\s*\[\s*([^\],]+)\s*,\s*\.\.\.{state}\s*\]\s*\)' at i
\* from the element's end on: the comma, the spread, "]" and \s*\)
match_spread2_rest(t, open, stop, rest) ==
  IF rest # 0 /\ MatchAt(t, rest, S(")"))
  THEN [ok |-> TRUE, end |-> rest + 1, group |-> SubSeq(t, open + 1, stop - 1)]
  ELSE NoMatch

match_spread2_stop(t, open, stop, state) ==
  IF stop > open + 1 /\ t[stop] = ","
  THEN match_spread2_rest(t, open, stop, MatchLiterals(t, stop, <<S(","), S("...") \o state, S("]")>>))
  ELSE NoMatch

match_spread2_open(t, lead, state) ==
  IF lead # 0 /\ MatchAt(t, lead, S("[")) THEN match_spread2_stop(t, lead, FindAny(t, lead + 1, {"]", ","}), state)
  ELSE NoMatch

match_spread2(t, i, setter, state) == match_spread2_open(t, MatchLiterals(t, i, <<setter \o S("(")>>), state)

\* whether \s*\) matches at e
ClosesAt(t, e) == MatchAt(t, SkipSpace(t, e), S(")"))

\* the least e >= from with ClosesAt(t, e), 0 when there is none
FirstClose(t, from) == First(from, Len(t), LAMBDA e : ClosesAt(t, e))

\* rf'{setter}\(\s*(.+?)\s*\)' with re.S at i: the group starts after the
\* longest run of \s for which a closing parenthesis is found, and is the
\* shortest text that \s*\) follows
RECURSIVE match_setter_group(_, _, _)
match_setter_group_to(t, open, start, e) ==
  IF start <= Len(t) /\ e # 0
  THEN [ok |-> TRUE, end |-> SkipSpace(t, e) + 1, group |-> SubSeq(t, start, e - 1)]
  ELSE match_setter_group(t, open, start - 1)

match_setter_group(t, open, start) ==
  IF start < open THEN NoMatch ELSE match_setter_group_to(t, open, start, FirstClose(t, start + 1))

match_setter_generic(t, i, setter) ==
  IF MatchAt(t, i, setter \o S("("))
  THEN match_setter_group(t, i + Len(setter) + 1, SkipSpace(t, i + Len(setter) + 1))
  ELSE NoMatch

\* re.sub over the matches of a pattern from i on: the text before the match
\* at j (the end of the text when j = 0, no match), then the rest
RECURSIVE sub_spread(_, _, _, _, _)
sub_spread_match(t, m, setter, state, prop_names) ==
  S("this.") \o state \o S(" = [...this.") \o state \o S(", ")
    \o prefix_this_to_identifiers(Strip(m.group), prop_names) \o S("]")
    \o sub_spread(t, m.end, setter, state, prop_names)

sub_spread_at(t, i, j, setter, state, prop_names) ==
  IF j = 0 THEN SubSeq(t, i, Len(t))
  ELSE SubSeq(t, i, j - 1) \o sub_spread_match(t, match_spread(t, j, setter, state), setter, state, prop_names)

sub_spread(t, i, setter, state, prop_names) ==
  sub_spread_at(t, i, First(i, Len(t), LAMBDA k : match_spread(t, k, setter, state).ok), setter, state, prop_names)

RECURSIVE sub_spread2(_, _, _, _, _)
sub_spread2_match(t, m, setter, state, prop_names) ==
  S("this.") \o state \o S(" = [") \o prefix_this_to_identifiers(Strip(m.group), prop_names)
    \o S(", ...this.") \o state \o S("]")
    \o sub_spread2(t, m.end, setter, state, prop_names)

sub_spread2_at(t, i, j, setter, state, prop_names) ==
  IF j = 0 THEN SubSeq(t, i, Len(t))
  ELSE SubSeq(t, i, j - 1) \o sub_spread2_match(t, match_spread2(t, j, setter, state), setter, state, prop_names)

sub_spread2(t, i, setter, state, prop_names) ==
  sub_spread2_at(t, i, First(i, Len(t), LAMBDA k : match_spread2(t, k, setter, state).ok), setter, state, prop_names)

RECURSIVE sub_setter_generic(_, _, _, _, _)
sub_setter_generic_match(t, m, setter, state, prop_names) ==
  S("this.") \o state \o S(" = ") \o prefix_this_to_identifiers(Strip(m.group), prop_names)
    \o sub_setter_generic(t, m.end, setter, state, prop_names)

sub_setter_generic_at(t, i, j, setter, state, prop_names) ==
  IF j = 0 THEN SubSeq(t, i, Len(t))
  ELSE SubSeq(t, i, j - 1) \o sub_setter_generic_match(t, match_setter_generic(t, j, setter), setter, state, prop_names)

sub_setter_generic(t, i, setter, state, prop_names) ==
  sub_setter_generic_at(t, i, First(i, Len(t), LAMBDA k : match_setter_generic(t, k, setter).ok), setter, state, prop_names)

\* step 1 of _normalize_method_body, for the setters in the map's order
convert_setter(body, setter, state, prop_names) ==
  sub_setter_generic(
    sub_spread2(sub_spread(body, 1, setter, state, prop_names), 1, setter, state, prop_names),
    1, setter, state, prop_names)

RECURSIVE convert_setters(_, _, _)
convert_setters(body, setter_mappings, prop_names) ==
  IF Len(setter_mappings) = 0 THEN body
  ELSE convert_setters(
         convert_setter(body, Head(setter_mappings).key, Head(setter_mappings).value, prop_names),
         Tail(setter_mappings), prop_names)

\* step 3: a statement terminator on every line that lacks one
needs_terminator(line, stripped) ==
  line # <<>> /\ ~EndsWith(stripped, S(";")) /\ ~EndsWith(stripped, S("{")) /\ ~EndsWith(stripped, S("}"))

terminated(line) == IF needs_terminator(line, Strip(line)) THEN line \o S(";") ELSE line

terminate_line(ln) == terminated(RStrip(ln))

\* step 3 over the lines of the body
clean_lines(lines) == [n \in 1..Len(lines) |-> terminate_line(lines[n])]

normalize_method_body(body, prop_names, setter_mappings) ==
  IF body = <<>> THEN S("")
  ELSE Replace(
         Join(clean_lines(SplitLines(
                prefix_this_to_identifiers(convert_setters(body, setter_mappings, prop_names), prop_names))),
              S("\n")),
         S("this.this."), S("this."))

(***************************************************************************)
(* utils/string_utils.py                                                   *)
(***************************************************************************)
IsAlnum(c) == IsWordChar(c) /\ c # "_"

\* re.findall(r"[a-zA-Z0-9]+", text)
RECURSIVE Words(_, _)
Words(t, word) ==
  IF Len(t) = 0 THEN (IF Len(word) > 0 THEN <<word>> ELSE <<>>)
  ELSE IF IsAlnum(Head(t)) THEN Words(Tail(t), Append(word, Head(t)))
  ELSE (IF Len(word) > 0 THEN <<word>> ELSE <<>>) \o Words(Tail(t), <<>>)

\* word.capitalize()
Capitalize(word) == [k \in 1..Len(word) |-> IF k = 1 THEN UpperChar(word[k]) ELSE LowerChar(word[k])]

to_pascal_case(text) ==
  LET words == Words(text, <<>>) IN Join([n \in 1..Len(words) |-> Capitalize(words[n])], S(""))

to_camel_case(text) ==
  LET pascal == to_pascal_case(text)
  IN IF Len(pascal) = 0 THEN S("") ELSE <<LowerChar(pascal[1])>> \o Tail(pascal)

(***************************************************************************)
(* TypeScriptGenerator.generate                                            *)
(***************************************************************************)
NamesOf(dicts) == [n \in 1..Len(dicts) |-> Get(dicts[n], "name", S(""))]
HasName(dicts, name) == \E n \in 1..Len(dicts) : Get(dicts[n], "name", S("")) = name

\* the auto properties of the twoWay bindings, each name once
RECURSIVE auto_properties_of_bindings(_, _)
auto_properties_of_bindings(bindings, seen) ==
  IF Len(bindings) = 0 THEN seen
  ELSE
    LET b == Head(bindings)
        name == Get(b, "property", S(""))
    IN IF Get(b, "type", "") = "twoWay" /\ name # <<>> /\ ~HasName(seen, name)
       THEN auto_properties_of_bindings(Tail(bindings),
              Append(seen, [name |-> name, type |-> S("string"), initialValue |-> S("''"), decorator |-> S("")]))
       ELSE auto_properties_of_bindings(Tail(bindings), seen)

\* the auto properties of the root elements (their "twoWayBinding", then the
\* array of their "ngFor" dict), each name once
RECURSIVE auto_properties_of_elements(_, _)
auto_properties_of_elements(elements, seen) ==
  IF Len(elements) = 0 THEN seen
  ELSE
    LET el == Head(elements)
        two_way == Get(el, "twoWayBinding", S(""))
        with_two_way ==
          IF two_way # <<>> /\ ~HasName(seen, two_way)
          THEN Append(seen, [name |-> two_way, type |-> S("string"), initialValue |-> S("''"), decorator |-> S("")])
          ELSE seen
        array_name == IF "ngFor" \in DOMAIN el THEN Get(el.ngFor, "array", S("")) ELSE S("")
        with_array ==
          IF array_name # <<>> /\ ~HasName(with_two_way, array_name)
          THEN Append(with_two_way, [name |-> array_name, type |-> S("any[]"), initialValue |-> S("[]"), decorator |-> S("")])
          ELSE with_two_way
    IN auto_properties_of_elements(Tail(elements), with_array)

extract_auto_properties(angular_ast) ==
  auto_properties_of_elements(angular_ast.template.elements,
                              auto_properties_of_bindings(angular_ast.template.bindings, <<>>))

\* handler.split("(")[0].strip()
method_name_of_handler(handler) ==
  LET open == Find(handler, S("("), 1)
  IN Strip(IF open = 0 THEN handler ELSE SubSeq(handler, 1, open - 1))

RECURSIVE auto_methods_of_bindings(_, _)
auto_methods_of_bindings(bindings, seen) ==
  IF Len(bindings) = 0 THEN seen
  ELSE
    LET b == Head(bindings)
        handler == Get(b, "handler", S(""))
        mname == method_name_of_handler(handler)
    IN IF Get(b, "type", "") = "event" /\ handler # <<>> /\ mname # <<>> /\ ~HasName(seen, mname)
       THEN auto_methods_of_bindings(Tail(bindings),
              Append(seen, [name |-> mname, parameters |-> <<>>, body |-> S("// TODO: implement handler")]))
       ELSE auto_methods_of_bindings(Tail(bindings), seen)

extract_auto_methods(angular_ast) == auto_methods_of_bindings(angular_ast.template.bindings, <<>>)

\* _merge_properties and _merge_methods: explicit first, then the auto ones
\* whose name no explicit one has
merge_by_name(explicit, auto) ==
  explicit \o SelectSeq(auto, LAMBDA a : ~(Get(a, "name", S("")) # <<>> /\ HasName(explicit, Get(a, "name", S("")))))

merge_properties(explicit, auto) == merge_by_name(explicit, auto)

merge_methods(explicit, auto) == merge_by_name(explicit, auto)

\* all_methods after the loop `method["body"] = normalized`
all_properties(angular_ast) ==
  merge_properties(angular_ast.class.properties, extract_auto_properties(angular_ast))

all_methods(angular_ast) == merge_methods(angular_ast.class.methods, extract_auto_methods(angular_ast))

normalize_methods(methods, prop_names, setter_mappings) ==
  [n \in 1..Len(methods) |->
     [methods[n] EXCEPT !.body = normalize_method_body(@, prop_names, setter_mappings)]]

normalized_methods(angular_ast) ==
  normalize_methods(all_methods(angular_ast), NamesOf(all_properties(angular_ast)), angular_ast.setterMappings)

\* merged = list(explicit) holds the method dicts of the IR themselves: the
\* loop's assignment writes the normalized body into angular_ast
TypeScriptGenerator_effect(angular_ast) ==
  [angular_ast EXCEPT !.class.methods = SubSeq(normalized_methods(angular_ast), 1, Len(@))]

HasDecorator(properties, prefix) ==
  \E n \in 1..Len(properties) : StartsWith(Strip(Get(properties[n], "decorator", S(""))), prefix)

has_two_way(angular_ast) ==
  \/ \E n \in 1..Len(angular_ast.template.bindings) : Get(angular_ast.template.bindings[n], "type", "") = "twoWay"
  \/ \E n \in 1..Len(angular_ast.template.elements) : Get(angular_ast.template.elements[n], "twoWayBinding", S("")) # <<>>

\* sorted(core_imports)
generate_imports(properties, angular_ast, lifecycle_hooks) ==
  LET core_imports ==
        <<S("Component")>>
        \o (IF HasDecorator(properties, S("@Output")) THEN <<S("EventEmitter")>> ELSE <<>>)
        \o (IF HasDecorator(properties, S("@Input")) THEN <<S("Input")>> ELSE <<>>)
        \o (IF HasName(lifecycle_hooks, S("ngOnDestroy")) THEN <<S("OnDestroy")>> ELSE <<>>)
        \o (IF HasName(lifecycle_hooks, S("ngOnInit")) THEN <<S("OnInit")>> ELSE <<>>)
        \o (IF HasDecorator(properties, S("@Output")) THEN <<S("Output")>> ELSE <<>>)
      first == S("import { ") \o Join(core_imports, S(", ")) \o S(" } from '@angular/core';")
  IN IF has_two_way(angular_ast)
     THEN Join(<<first, S(""), S("// NOTE: Add FormsModule to your module's imports array for [(ngModel)] to work")>>, S("\n"))
     ELSE first

generate_decorator(component_name) ==
  S("@Component({\n  selector: 'app-") \o to_camel_case(component_name)
    \o S("',\n  templateUrl: './") \o component_name
    \o S(".component.html',\n  styleUrls: ['./") \o component_name \o S(".component.css']\n})")

RECURSIVE property_lines(_)
property_lines(properties) ==
  IF Len(properties) = 0 THEN <<>>
  ELSE
    LET p == Head(properties)
        ptype == IF Get(p, "type", S("any")) = S("state") THEN S("any") ELSE Get(p, "type", S("any"))
        init == IF Get(p, "initialValue", S("")) # <<>> THEN p.initialValue ELSE Get(p, "initial", S(""))
        decorator == Get(p, "decorator", S(""))
        line == S("  ") \o Get(p, "name", S("")) \o S(": ") \o ptype
                  \o (IF init # <<>> THEN S(" = ") \o init ELSE S("")) \o S(";")
    IN (IF decorator # <<>> THEN <<S("  ") \o decorator>> ELSE <<>>) \o <<line>> \o property_lines(Tail(properties))

generate_properties(properties) ==
  IF Len(properties) = 0 THEN S("") ELSE Join(property_lines(properties), S("\n")) \o S("\n")

generate_lifecycle_hooks(hooks) ==
  IF Len(hooks) = 0 THEN S("")
  ELSE Join([n \in 1..Len(hooks) |->
               S("  ") \o Get(hooks[n], "name", S("None")) \o S("(): void {\n    ")
                 \o Get(hooks[n], "body", S("// TODO: implement hook")) \o S("\n  }\n")],
            S("\n"))

generate_methods(methods) ==
  IF Len(methods) = 0 THEN S("")
  ELSE Join([n \in 1..Len(methods) |->
               S("  ") \o Get(methods[n], "name", S("")) \o S("(")
                 \o Join(Get(methods[n], "parameters", <<>>), S(", ")) \o S(") {\n    ")
                 \o Join(SplitLines(Get(methods[n], "body", S(""))), S("\n    ")) \o S("\n  }")],
            S("\n\n"))

generate_implements(lifecycle_hooks) ==
  LET impls == (IF HasName(lifecycle_hooks, S("ngOnInit")) THEN <<S("OnInit")>> ELSE <<>>)
               \o (IF HasName(lifecycle_hooks, S("ngOnDestroy")) THEN <<S("OnDestroy")>> ELSE <<>>)
  IN IF Len(impls) > 0 THEN S(" implements ") \o Join(impls, S(", ")) ELSE S("")

\* the f-string of generate, over the merged properties, the lifecycle hooks
\* and the normalized methods
generate_class(angular_ast, component_name, properties, lifecycle_hooks, methods) ==
  generate_imports(properties, angular_ast, lifecycle_hooks) \o S("\n\n")
    \o generate_decorator(component_name) \o S("\nexport class ")
    \o to_pascal_case(component_name) \o S("Component") \o generate_implements(lifecycle_hooks) \o S(" {\n")
    \o generate_properties(properties) \o S("\n")
    \o generate_lifecycle_hooks(lifecycle_hooks) \o S("\n")
    \o generate_methods(methods) \o S("\n}\n")

TypeScriptGenerator_generate(angular_ast, component_name) ==
  Returned(generate_class(angular_ast, component_name, all_properties(angular_ast),
                          angular_ast.class.lifecycleHooks, normalized_methods(angular_ast)))

(***************************************************************************)
(* ASTTransformer (transformer/ast_transformer.py)                         *)
(***************************************************************************)
RECURSIVE find_component_function(_), find_component_function_in(_)
find_component_function_in(nodes) ==
  IF Len(nodes) = 0 THEN None_
  ELSE LET found == find_component_function(Head(nodes))
       IN IF found.type # "None" THEN found ELSE find_component_function_in(Tail(nodes))

find_component_function(node) ==
  IF ~IsDict(node) THEN None_
  ELSE IF node.type = "FunctionDeclaration" THEN node
  ELSE find_component_function_in(Values(node))

\* Transpiler._extract_component_name: the input file's base name without its
\* extension; the file names tried
ComponentNames == {S("Counter"), S("todo-list")}

(***************************************************************************)
(* The trees transformed: a module with one import and one component       *)
(* function, its body the state-hook declarations, then the local          *)
(* functions, then the return of the markup.                               *)
(***************************************************************************)
Component(id, statements) ==
  Program(<<ImportDeclaration, FunctionDeclaration(id, <<>>, BlockStatement(statements))>>)

UseState(pattern, arguments) ==
  VariableDeclaration(<<VariableDeclarator(pattern, CallExpression(Identifier(S("useState")), arguments))>>)

\* const [state, setter] = useState(x)
UseStateDecl(state, setter, x) == UseState(ArrayPattern(<<Identifier(state), Identifier(setter)>>), <<x>>)

Const(name, init) == VariableDeclaration(<<VariableDeclarator(Identifier(name), init)>>)

Call1(callee, argument) == CallExpression(Identifier(callee), <<argument>>)

\* <param>.target.value
TargetValue(param) ==
  MemberExpression(MemberExpression(Identifier(param), Identifier(S("target"))), Identifier(S("value")))

CountPlusOne == BinaryExpression(S("+"), Identifier(S("count")), Literal("int", S("1")))

\* the arguments X of useState(X) tried
InitialValues ==
  {Literal("int", S("0")), Literal("str", S("")), Literal("str", S("a")), Literal("bool", S("True")),
   Literal("NoneType", S("None")), ArrayExpression(<<>>),
   ArrayExpression(<<Literal("str", S("a"))>>), Identifier(S("initial")),
   Call1(S("load"), Literal("int", S("1"))),
   ArrowFunctionExpression(<<>>, Literal("int", S("0")))}

\* the declarations every component of the method and markup trees starts with
StandardHooks ==
  <<UseStateDecl(S("count"), S("setCount"), Literal("int", S("0"))),
    UseStateDecl(S("s"), S("setS"), Literal("str", S(""))),
    UseStateDecl(S("items"), S("setItems"), ArrayExpression(<<>>)),
    UseStateDecl(S("a"), S("setA"), Literal("int", S("1")))>>

\* hook declarations of irregular shapes, each after a regular one
IrregularHooks ==
  {UseState(ArrayPattern(<<None_, Identifier(S("setTick"))>>), <<Literal("int", S("0"))>>),
   UseState(ArrayPattern(<<Identifier(S("only"))>>), <<Literal("int", S("0"))>>),
   UseState(Identifier(S("pair")), <<Literal("int", S("0"))>>),
   UseState(ArrayPattern(<<Identifier(S("b")), Identifier(S("setB"))>>), <<>>)}

Element0(tag) == JSXElement(tag, <<>>, <<>>)

PlainRoot == JSXElement(S("div"), <<>>, <<Element0(S("span"))>>)

TextRoot ==
  JSXElement(S("div"), <<>>,
    <<JSXText(S("Total ")), JSXExpressionContainer(Identifier(S("count")))>>)

\* the local functions tried, one per tree
Methods ==
  {Const(S("inc"), ArrowFunctionExpression(<<>>, Call1(S("setCount"), CountPlusOne))),
   Const(S("f"), ArrowFunctionExpression(<<>>, Call1(S("setA"), Call1(S("setA"), Literal("int", S("1")))))),
   Const(S("onName"), ArrowFunctionExpression(<<Identifier(S("e"))>>, Call1(S("setS"), TargetValue(S("e"))))),
   Const(S("add"), FunctionExpression(<<>>, BlockStatement(
     <<ExpressionStatement(Call1(S("setItems"),
         ArrayExpression(<<SpreadElement(Identifier(S("items"))), Identifier(S("s"))>>))),
       ExpressionStatement(Call1(S("setS"), Literal("str", S(""))))>>))),
   FunctionDeclaration(Identifier(S("reset")), <<>>, BlockStatement(
     <<ExpressionStatement(Call1(S("setCount"), Literal("int", S("0"))))>>)),
   Const(S("hello"), ArrowFunctionExpression(<<>>, Call1(S("log"), Literal("str", S("count"))))),
   Const(S("get"), ArrowFunctionExpression(<<>>, BlockStatement(<<ReturnStatement(Identifier(S("count")))>>))),
   Const(S("mark"), ArrowFunctionExpression(<<>>, Call1(S("setS"), Literal("str", S("a)"))))),
   Const(S("undo"), ArrowFunctionExpression(<<>>, Call1(S("resetA"), Literal("int", S("1")))))}

\* the values of an event attribute tried: the expression of its container
Handlers ==
  {Identifier(S("inc")),
   ArrowFunctionExpression(<<>>, Call1(S("setCount"), CountPlusOne)),
   ArrowFunctionExpression(<<>>, Call1(S("setCount"), Literal("int", S("0")))),
   ArrowFunctionExpression(<<>>, Call1(S("setS"), Literal("str", S("a")))),
   ArrowFunctionExpression(<<>>, Call1(S("setS"), Identifier(S("a")))),
   ArrowFunctionExpression(<<Identifier(S("e"))>>, Call1(S("setS"), TargetValue(S("e")))),
   ArrowFunctionExpression(<<Identifier(S("e"))>>, CallExpression(Identifier(S("setCount")), <<>>)),
   ArrowFunctionExpression(<<>>, Call1(S("save"), Identifier(S("note")))),
   ArrowFunctionExpression(<<Identifier(S("e"))>>, Call1(S("save"), Identifier(S("e")))),
   Call1(S("make"), Literal("int", S("1"))),
   Literal("int", S("1")),
   BinaryExpression(S("+"), Identifier(S("a")), Identifier(S("b")))}

\* <div><button onClick={handler}></button><span></span></div>, the
\* attribute under the opening tag
ClickRoot(handler) ==
  JSXElement(S("div"), <<>>,
    <<JSXElement(S("button"), <<JSXAttribute(S("onClick"), JSXExpressionContainer(handler))>>, <<>>),
      Element0(S("span"))>>)

\* the same markup from a parser that also lists each element's attributes
\* on the element itself
ClickRootFlat(handler) ==
  JSXElementFlat(S("div"), <<>>,
    <<JSXElementFlat(S("button"), <<JSXAttribute(S("onClick"), JSXExpressionContainer(handler))>>, <<>>,
                     <<FlatAttribute(S("onClick"), JSXExpressionContainer(handler))>>),
      JSXElementFlat(S("span"), <<>>, <<>>, <<>>)>>,
    <<>>)

\* <div><input value={s} onChange={handler} [onFocus={track}] /></div>
InputAttributes(handler, more) ==
  <<JSXAttribute(S("value"), JSXExpressionContainer(Identifier(S("s")))),
    JSXAttribute(S("onChange"), JSXExpressionContainer(handler))>>
  \o (IF more THEN <<JSXAttribute(S("onFocus"), JSXExpressionContainer(Identifier(S("track"))))>> ELSE <<>>)

FlatAttributes(attributes) ==
  [n \in 1..Len(attributes) |-> FlatAttribute(attributes[n].name.name, attributes[n].value)]

InputRoot(handler, more) ==
  JSXElement(S("div"), <<>>, <<JSXElement(S("input"), InputAttributes(handler, more), <<>>), Element0(S("p"))>>)

InputRootFlat(handler, more) ==
  JSXElementFlat(S("div"), <<>>,
    <<JSXElementFlat(S("input"), InputAttributes(handler, more), <<>>,
                     FlatAttributes(InputAttributes(handler, more))),
      JSXElementFlat(S("p"), <<>>, <<>>, <<>>)>>,
    <<>>)

ChangeHandlers ==
  {ArrowFunctionExpression(<<Identifier(S("e"))>>, Call1(S("setS"), TargetValue(S("e")))),
   ArrowFunctionExpression(<<Identifier(S("e"))>>, Call1(S("setCount"), TargetValue(S("e")))),
   ArrowFunctionExpression(<<>>, Call1(S("setS"), Identifier(S("a")))),
   Identifier(S("setS")),
   Identifier(S("onName"))}

\* items.map(callback)
MapCall(callback) ==
  CallExpression(MemberExpression(Identifier(S("items")), Identifier(S("map"))), <<callback>>)

\* <li>{x}</li>
ListItem(attributes) == JSXElement(S("li"), attributes, <<JSXExpressionContainer(Identifier(S("x")))>>)

ListRoot(callback) == JSXElement(S("ul"), <<>>, <<JSXExpressionContainer(MapCall(callback))>>)

KeyAttribute == JSXAttribute(S("key"), JSXExpressionContainer(Identifier(S("i"))))

\* the callbacks of items.map tried
MapCallbacks ==
  {ArrowFunctionExpression(<<Identifier(S("x")), Identifier(S("i"))>>, ListItem(<<>>)),
   ArrowFunctionExpression(<<Identifier(S("x")), Identifier(S("i"))>>, ListItem(<<KeyAttribute>>)),
   ArrowFunctionExpression(<<Identifier(S("x"))>>, ListItem(<<>>)),
   ArrowFunctionExpression(<<>>, ListItem(<<>>)),
   ArrowFunctionExpression(<<Identifier(S("x")), Identifier(S("i"))>>,
     BlockStatement(<<ReturnStatement(ListItem(<<>>))>>)),
   FunctionExpression(<<Identifier(S("x")), Identifier(S("i"))>>,
     BlockStatement(<<ReturnStatement(ListItem(<<>>))>>)),
   ArrowFunctionExpression(<<Identifier(S("x")), Identifier(S("i"))>>,
     JSXElement(S("p"), <<JSXAttribute(S("className"), Literal("str", S("row")))>>, <<Element0(S("b"))>>))}

Named(statements) == Component(Identifier(S("Counter")), statements)

HookTrees ==
  {Named(<<UseStateDecl(S("count"), S("setCount"), x), ReturnStatement(PlainRoot)>>) : x \in InitialValues}
  \cup {Named(<<StandardHooks[1], h, ReturnStatement(PlainRoot)>>) : h \in IrregularHooks}
  \cup {Named(<<StandardHooks[1], StandardHooks[2], ReturnStatement(TextRoot)>>),
        Named(<<ReturnStatement(PlainRoot)>>),
        Named(<<StandardHooks[1]>>),
        Named(<<StandardHooks[1], ReturnStatement(Literal("NoneType", S("None")))>>),
        Named(<<StandardHooks[1],
                BlockStatement(<<UseStateDecl(S("count"), S("setTick"), Literal("int", S("1")))>>),
                ReturnStatement(PlainRoot)>>)}

\* statements with a nested function that returns markup from a block body:
\* a helper function, and the callback of a list rendering kept in a constant
MarkupFunctions ==
  {Const(S("row"), ArrowFunctionExpression(<<>>, BlockStatement(<<ReturnStatement(Element0(S("li")))>>))),
   Const(S("rows"), MapCall(ArrowFunctionExpression(<<Identifier(S("x"))>>,
     BlockStatement(<<ReturnStatement(ListItem(<<>>))>>))))}

\* one local function as a statement of the component, or in a bare block
MethodTrees ==
  {Named(StandardHooks \o <<m, ReturnStatement(PlainRoot)>>) : m \in Methods}
  \cup {Named(StandardHooks \o
           <<BlockStatement(<<Const(S("inc"), ArrowFunctionExpression(<<>>, Call1(S("setCount"), CountPlusOne)))>>),
             ReturnStatement(PlainRoot)>>)}
  \cup {Named(StandardHooks \o <<early, ReturnStatement(PlainRoot)>>) : early \in MarkupFunctions}

ClickTrees ==
  {Named(StandardHooks \o <<ReturnStatement(ClickRoot(h))>>) : h \in Handlers}
  \cup {Named(StandardHooks \o <<ReturnStatement(ClickRootFlat(h))>>) : h \in Handlers}

InputTrees ==
  {Named(StandardHooks \o <<ReturnStatement(InputRoot(h, more))>>) : h \in ChangeHandlers, more \in BOOLEAN}
  \cup {Named(StandardHooks \o <<ReturnStatement(InputRootFlat(h, more))>>) : h \in ChangeHandlers, more \in BOOLEAN}

ListTrees == {Named(StandardHooks \o <<ReturnStatement(ListRoot(c))>>) : c \in MapCallbacks}

\* a module without a function declaration, one whose component function
\* is the anonymous default export, and one whose component function has
\* parameters
OtherTrees ==
  {Program(<<ImportDeclaration>>),
   Program(<<ImportDeclaration,
             FunctionDeclaration(Identifier(S("Counter")), <<Identifier(S("title")), Identifier(S("initial"))>>,
               BlockStatement(<<StandardHooks[1], ReturnStatement(PlainRoot)>>))>>),
   Program(<<ImportDeclaration, Const(S("App"), ArrowFunctionExpression(<<>>, PlainRoot))>>),
   Program(<<ImportDeclaration,
             ExportDefaultDeclaration(
               FunctionDeclaration(None_, <<>>, BlockStatement(<<StandardHooks[1], ReturnStatement(PlainRoot)>>)))>>)}

Trees == HookTrees \cup MethodTrees \cup ClickTrees \cup InputTrees \cup ListTrees \cup OtherTrees

\* the trees of the runs that call transform several times on one transformer
CallTrees ==
  {Named(<<StandardHooks[1], ReturnStatement(PlainRoot)>>),
   Named(<<StandardHooks[2], Const(S("onName"), ArrowFunctionExpression(<<Identifier(S("e"))>>,
             Call1(S("setS"), TargetValue(S("e"))))),
           ReturnStatement(InputRootFlat(Identifier(S("onName")), FALSE))>>),
   Named(<<StandardHooks[1],
           UseState(ArrayPattern(<<None_, Identifier(S("setTick"))>>), <<Literal("int", S("0"))>>),
           ReturnStatement(PlainRoot)>>),
   Program(<<ImportDeclaration>>),
   Program(<<ImportDeclaration, Const(S("App"), ArrowFunctionExpression(<<>>, PlainRoot))>>)}

\* how many times each generator is called on the IR of one transform call
MaxGen == 2

\* how many transform calls one transformer instance serves
MaxCalls == 3

(***************************************************************************)
(* State.  One ASTTransformer instance and the three generators.           *)
(*   react_ast      the tree handed to the transform call in progress      *)
(*   component_name the name handed to the generators                      *)
(*   pc             where the transform call stands: "ready" before it,    *)
(*                  "hooks", "component", "jsx", "event" before that rule, *)
(*                  "done" once it has returned, "raised" once it has      *)
(*                  raised                                                 *)
(*   component_fn   the local of that name                                 *)
(*   angular_ast    the IR object: the local of transform, then the        *)
(*                  argument of the generators (None_ before it exists)    *)
(*   applied        the rules applied by the call in progress, in order    *)
(*   setters_read   the setter map as the Event Rule read it               *)
(*   ir_before      the IR as it was when the last generate call began     *)
(*   ts_code, html_code, css_code   what each generate call returned       *)
(*   returned       [tree, ir] of every transform call that has returned   *)
(*   calls          the transform calls begun                              *)
(* and, of one Transpiler.transpile call,                                  *)
(*   tp             where the call stands: "off" when there is none,       *)
(*                  "read", "parse", "transform", "html", "css",           *)
(*                  "write_ts", "write_html", "write_css" before that      *)
(*                  step, "returned", "raised" once it has ended           *)
(*   source         the input file                                         *)
(*   directory      whether the output directory exists                    *)
(*   writes         the write_file calls made: path, content, whether the  *)
(*                  file was written                                       *)
(*   outcome        what the call returned (None_ before it has)           *)
(***************************************************************************)
VARIABLES react_ast, component_name, pc, component_fn, angular_ast, applied, setters_read,
          ir_before, ts_code, html_code, css_code, returned, calls,
          tp, source, directory, writes, outcome

vars == <<react_ast, component_name, pc, component_fn, angular_ast, applied, setters_read,
          ir_before, ts_code, html_code, css_code, returned, calls,
          tp, source, directory, writes, outcome>>

\* the IR of the call before, kept and filled further, when there is one
AngularAstKept ==
  IF angular_ast.type = "None"
  THEN [type |-> "AngularComponent",
        class |-> [name |-> S(""), properties |-> <<>>, methods |-> <<>>, lifecycleHooks |-> <<>>],
        template |-> [elements |-> <<>>, bindings |-> <<>>],
        styles |-> <<>>,
        setterMappings |-> <<>>]
  ELSE angular_ast

\* the IR transform creates.  The dict has no key "setterMappings" until the
\* State-Hook rule writes the first entry; every reader takes the absent key
\* for an empty map (`.get("setterMappings", {})`), which is what the empty
\* map here stands for.
AngularAstInit ==
  [type |-> "AngularComponent",
   class |-> [name |-> S(""), properties |-> <<>>, methods |-> <<>>, lifecycleHooks |-> <<>>],
   template |-> [elements |-> <<>>, bindings |-> <<>>],
   styles |-> <<>>,
   setterMappings |-> <<>>]

\* the transformer and the generators before their first call
InitObjects ==
  /\ component_name \in ComponentNames
  /\ component_fn = None_
  /\ angular_ast = None_
  /\ applied = <<>>
  /\ setters_read = <<>>
  /\ ir_before = None_
  /\ ts_code = <<>>
  /\ html_code = <<>>
  /\ css_code = <<>>
  /\ returned = <<>>
  /\ calls = 0

\* a tree in hand for transform, and no transpile call
InitWith(trees) ==
  /\ react_ast \in trees
  /\ pc = "ready"
  /\ InitObjects
  /\ tp = "off"
  /\ source = None_
  /\ directory = FALSE
  /\ writes = <<>>
  /\ outcome = None_

Init == InitWith(Trees)

generators_unchanged == UNCHANGED <<ir_before, ts_code, html_code, css_code>>

transpile_unchanged == UNCHANGED <<tp, source, directory, writes, outcome>>

\* transform up to the first rule: the empty IR, the search for the component
\* function, the debug message that reads the function's name
Transform ==
  /\ pc = "ready"
  /\ LET found == find_component_function(react_ast) IN
       /\ component_fn' = found
       /\ pc' = IF found.type = "None" THEN "done"
                ELSE IF ~IsDict(found.id) THEN "raised"
                ELSE "hooks"
       /\ returned' = IF found.type = "None"
                       THEN Append(returned, [tree |-> react_ast, ir |-> AngularAstInit])
                       ELSE returned
  /\ angular_ast' = AngularAstInit
  /\ applied' = <<>>
  /\ setters_read' = <<>>
  /\ calls' = calls + 1
  /\ UNCHANGED <<react_ast, component_name>>
  /\ generators_unchanged
  /\ transpile_unchanged

\* one rule of the call: `angular_ast = rule.transform(component_fn, angular_ast)`
Apply(at, rule, result, then) ==
  /\ pc = at
  /\ applied' = Append(applied, rule)
  /\ IF Raised(result)
     THEN pc' = "raised" /\ UNCHANGED angular_ast
     ELSE pc' = then /\ angular_ast' = result
  /\ returned' = IF then = "done" /\ ~Raised(result)
                  THEN Append(returned, [tree |-> react_ast, ir |-> result])
                  ELSE returned
  /\ UNCHANGED <<react_ast, component_name, component_fn, calls>>
  /\ generators_unchanged
  /\ transpile_unchanged

ApplyHooksRules ==
  /\ Apply("hooks", "HooksRules", HooksRules_transform(component_fn, angular_ast), "component")
  /\ UNCHANGED setters_read

ApplyComponentRules ==
  /\ Apply("component", "ComponentRules", ComponentRules_transform(component_fn, angular_ast), "jsx")
  /\ UNCHANGED setters_read

ApplyJSXRules ==
  /\ Apply("jsx", "JSXRules", JSXRules_transform(component_fn, angular_ast), "event")
  /\ UNCHANGED setters_read

ApplyEventRules ==
  /\ Apply("event", "EventRules", EventRules_transform(component_fn, angular_ast), "done")
  /\ setters_read' = angular_ast.setterMappings

\* one generate call on the IR transform returned
Generate(code, result, effect) ==
  /\ pc = "done"
  /\ Len(code) < MaxGen
  /\ ir_before' = angular_ast
  /\ angular_ast' = effect
  /\ code' = Append(code, result)
  /\ UNCHANGED <<react_ast, component_name, pc, component_fn, applied, setters_read, returned, calls>>

GenerateTS ==
  /\ Generate(ts_code, TypeScriptGenerator_generate(angular_ast, component_name),
              TypeScriptGenerator_effect(angular_ast))
  /\ UNCHANGED <<html_code, css_code>>
  /\ transpile_unchanged

GenerateHTML ==
  /\ Generate(html_code, HTMLGenerator_generate(angular_ast, component_name), angular_ast)
  /\ UNCHANGED <<ts_code, css_code>>
  /\ transpile_unchanged

GenerateCSS ==
  /\ Generate(css_code, CSSGenerator_generate(angular_ast, component_name), angular_ast)
  /\ UNCHANGED <<ts_code, html_code>>
  /\ transpile_unchanged

Next ==
  \/ Transform
  \/ ApplyHooksRules
  \/ ApplyComponentRules
  \/ ApplyJSXRules
  \/ ApplyEventRules
  \/ GenerateTS
  \/ GenerateHTML
  \/ GenerateCSS

Spec == Init /\ [][Next]_vars

\* the next transform call on the same instance, once the last one has
\* returned or raised; the locals of the last call are still in memory
NextCall ==
  /\ pc \in {"done", "raised"}
  /\ calls < MaxCalls
  /\ react_ast' \in CallTrees
  /\ pc' = "ready"
  /\ UNCHANGED <<component_name, component_fn, angular_ast, applied, setters_read, returned, calls>>
  /\ generators_unchanged
  /\ transpile_unchanged

InitCalls == InitWith(CallTrees)

NextCalls ==
  \/ Transform
  \/ ApplyHooksRules
  \/ ApplyComponentRules
  \/ ApplyJSXRules
  \/ ApplyEventRules
  \/ NextCall

SpecCalls == InitCalls /\ [][NextCalls]_vars

(***************************************************************************)
(* Transpiler.transpile (transpiler.py): one call, from reading the input  *)
(* file to the record of the three paths.  The messages it prints and logs *)
(* on the way (print_ast_tree, print_angular_ast) change nothing.          *)
(***************************************************************************)
\* the texts an input file can hold: none, one the parser rejects, the
\* source text of a tree
Unparsable == [type |-> "source", parsed |-> Raise_]

SourceOf(tree) == [type |-> "source", parsed |-> tree]

TranspileTrees == CallTrees \cup {Named(<<StandardHooks[1], StandardHooks[2], ReturnStatement(TextRoot)>>)}

Texts == {Str_(S("")), Unparsable} \cup {SourceOf(tree) : tree \in TranspileTrees}

\* the input files: one that cannot be opened, and one for each text
Files == {[readable |-> FALSE, text |-> Str_(S(""))]} \cup {[readable |-> TRUE, text |-> text] : text \in Texts}

\* read_file: the text of the file, None when reading it fails
read_file(file) == IF file.readable THEN file.text ELSE None_

\* JSXParser.parse: the tree of the text, or the parser's exception raised
\* again.  The key "raw" it adds to the Program holds a str, which no walk
\* of the tree follows.
JSXParser_parse(source_code) == source_code.parsed

\* the artifact paths, below the output directory
ts_path(name) == name \o S(".component.ts")

html_path(name) == name \o S(".component.html")

css_path(name) == name \o S(".component.css")

InitTranspile ==
  /\ react_ast = None_
  /\ pc = "idle"
  /\ InitObjects
  /\ tp = "read"
  /\ source \in Files
  /\ directory \in BOOLEAN
  /\ writes = <<>>
  /\ outcome = None_

transformer_unchanged ==
  UNCHANGED <<react_ast, component_name, pc, component_fn, angular_ast, applied, setters_read, returned, calls>>

\* `source_code = read_file(input_path)`, ValueError when there is no text
ReadFile ==
  /\ tp = "read"
  /\ tp' = IF read_file(source).type \in {"None", "str"} THEN "raised" ELSE "parse"
  /\ UNCHANGED <<source, directory, writes, outcome>>
  /\ transformer_unchanged
  /\ generators_unchanged

\* a parser that hands back an empty module for the text it rejects
ParseTolerant ==
  /\ tp = "parse"
  /\ react_ast' = IF Raised(JSXParser_parse(read_file(source))) THEN Program(<<>>) ELSE JSXParser_parse(read_file(source))
  /\ pc' = "ready"
  /\ tp' = "transform"
  /\ UNCHANGED <<component_name, component_fn, angular_ast, applied, setters_read, returned, calls>>
  /\ UNCHANGED <<source, directory, writes, outcome>>
  /\ generators_unchanged

\* `ast = self.parser.parse(source_code)`: the exception of the parser ends
\* the call, the tree is handed to transform
Parse ==
  /\ tp = "parse"
  /\ IF Raised(JSXParser_parse(read_file(source)))
     THEN tp' = "raised" /\ UNCHANGED <<react_ast, pc>>
     ELSE tp' = "transform" /\ react_ast' = JSXParser_parse(read_file(source)) /\ pc' = "ready"
  /\ UNCHANGED <<component_name, component_fn, angular_ast, applied, setters_read, returned, calls>>
  /\ UNCHANGED <<source, directory, writes, outcome>>
  /\ generators_unchanged

\* one generate call of transpile; an exception of the generator ends the call
TranspileGenerate(at, code, result, effect, then) ==
  /\ tp = at
  /\ Generate(code, result, effect)
  /\ tp' = IF result.ok THEN then ELSE "raised"
  /\ UNCHANGED <<source, writes, outcome>>

\* ensure_directory(output_dir), which may fail and is not looked at, then
\* the class text
TranspileGenerateTS ==
  /\ TranspileGenerate("transform", ts_code, TypeScriptGenerator_generate(angular_ast, component_name),
                       TypeScriptGenerator_effect(angular_ast), "html")
  /\ \E made \in BOOLEAN : directory' = (directory \/ made)
  /\ UNCHANGED <<html_code, css_code>>

TranspileGenerateHTML ==
  /\ TranspileGenerate("html", html_code, HTMLGenerator_generate(angular_ast, component_name),
                       angular_ast, "css")
  /\ UNCHANGED <<directory, ts_code, css_code>>

TranspileGenerateCSS ==
  /\ TranspileGenerate("css", css_code, CSSGenerator_generate(angular_ast, component_name),
                       angular_ast, "write_ts")
  /\ UNCHANGED <<directory, ts_code, html_code>>

\* write_file(path, content): the directory is made if need be and the file
\* written; any exception is logged and answered with False, which transpile
\* does not look at.  After the third write transpile returns the paths.
WriteFile(at, path, content, then) ==
  /\ tp = at
  /\ \E made \in BOOLEAN, ok \in BOOLEAN :
       /\ ok => (directory \/ made)
       /\ directory' = (directory \/ made)
       /\ writes' = Append(writes, [path |-> path, content |-> content, ok |-> ok])
  /\ tp' = then
  /\ outcome' = IF then = "returned"
                 THEN [typescript |-> ts_path(component_name), html |-> html_path(component_name),
                       css |-> css_path(component_name)]
                 ELSE outcome
  /\ UNCHANGED source
  /\ transformer_unchanged
  /\ generators_unchanged

WriteTS == WriteFile("write_ts", ts_path(component_name), ts_code[Len(ts_code)].text, "write_html")

WriteHTML == WriteFile("write_html", html_path(component_name), html_code[Len(html_code)].text, "write_css")

WriteCSS == WriteFile("write_css", css_path(component_name), css_code[Len(css_code)].text, "returned")

NextTranspile ==
  \/ ReadFile
  \/ Parse
  \/ Transform
  \/ ApplyHooksRules
  \/ ApplyComponentRules
  \/ ApplyJSXRules
  \/ ApplyEventRules
  \/ TranspileGenerateTS
  \/ TranspileGenerateHTML
  \/ TranspileGenerateCSS
  \/ WriteTS
  \/ WriteHTML
  \/ WriteCSS

SpecTranspile == InitTranspile /\ [][NextTranspile]_vars


(***************************************************************************)
(* What the properties below read off the input tree and the outputs.      *)
(***************************************************************************)
\* the IR the last transform call returned (read where pc = "done")
ReturnedIR == returned[Len(returned)].ir

FoundComponent == component_fn.type = "FunctionDeclaration"

\* the top-level statements of the component function
ComponentStatements == IF FoundComponent THEN component_fn.body.body ELSE <<>>

\* the declarators of the variable declarations among the statements
RECURSIVE Declarators(_)
Declarators(statements) ==
  IF Len(statements) = 0 THEN <<>>
  ELSE (IF Head(statements).type = "VariableDeclaration" THEN Head(statements).declarations ELSE <<>>)
         \o Declarators(Tail(statements))

\* [s, setS] = useState(X)
IsStateHookDeclarator(d) ==
  /\ d.id.type = "ArrayPattern"
  /\ Len(d.id.elements) = 2
  /\ d.id.elements[1].type = "Identifier"
  /\ d.id.elements[2].type = "Identifier"
  /\ d.init.type = "CallExpression"
  /\ d.init.callee.type = "Identifier"
  /\ d.init.callee.name = S("useState")
  /\ Len(d.init.arguments) = 1

StateHookDeclarators == SelectSeq(Declarators(ComponentStatements), IsStateHookDeclarator)

\* how many dicts of the list have this name
CountNamed(dicts, name) == Cardinality({n \in 1..Len(dicts) : dicts[n].name = name})

\* whether the setter map holds setter -> state, and nothing else for setter
MapsTo(setter_map, setter, state) ==
  /\ \E n \in 1..Len(setter_map) : setter_map[n].key = setter
  /\ \A n \in 1..Len(setter_map) : setter_map[n].key = setter => setter_map[n].value = state

\* C1  State-hook round trip: once transform has returned, every declaration
\* `const [s, setS] = useState(X)` among the statements of the component
\* function has exactly one entry named s in class.properties of the
\* returned IR, and the IR's setter map maps setS to s.
StateHookRoundTrip ==
  (pc = "done" /\ FoundComponent) =>
    \A n \in 1..Len(StateHookDeclarators) :
      /\ CountNamed(ReturnedIR.class.properties, StateHookDeclarators[n].id.elements[1].name) = 1
      /\ MapsTo(ReturnedIR.setterMappings, StateHookDeclarators[n].id.elements[2].name,
                StateHookDeclarators[n].id.elements[1].name)

\* the markup the component function returns: the argument of its last statement
RootMarkup ==
  IF Len(ComponentStatements) > 0 /\ ComponentStatements[Len(ComponentStatements)].type = "ReturnStatement"
  THEN ComponentStatements[Len(ComponentStatements)].argument
  ELSE None_

\* the markup a callback returns: its expression body, or the argument of
\* the return that is the only statement of its block
CallbackMarkup(callback) ==
  IF callback.body.type = "BlockStatement"
  THEN (IF Len(callback.body.body) = 1 /\ callback.body.body[1].type = "ReturnStatement"
        THEN callback.body.body[1].argument ELSE None_)
  ELSE callback.body

\* <li>{x}</li>, whatever attributes the li has
IsListItemOf(markup) ==
  /\ markup.type = "JSXElement"
  /\ markup.openingElement.name.name = S("li")
  /\ Len(markup.children) = 1
  /\ markup.children[1].type = "JSXExpressionContainer"
  /\ markup.children[1].expression.type = "Identifier"

\* A.map(callback) with a callback that returns <li>{x}</li>
IsListExpression(expr) ==
  /\ expr.type = "CallExpression"
  /\ expr.callee.type = "MemberExpression"
  /\ expr.callee.object.type = "Identifier"
  /\ expr.callee.property.type = "Identifier"
  /\ expr.callee.property.name = S("map")
  /\ Len(expr.arguments) = 1
  /\ expr.arguments[1].type \in {"ArrowFunctionExpression", "FunctionExpression"}
  /\ IsListItemOf(CallbackMarkup(expr.arguments[1]))

\* the root markup has one child, the expression A.map(callback)
HasListChild ==
  /\ RootMarkup.type = "JSXElement"
  /\ Len(RootMarkup.children) = 1
  /\ RootMarkup.children[1].type = "JSXExpressionContainer"
  /\ IsListExpression(RootMarkup.children[1].expression)

ListExpression == RootMarkup.children[1].expression

\* the k-th parameter of the callback, or the placeholder
ParameterOr(callback, k, placeholder) ==
  IF Len(callback.params) >= k THEN callback.params[k].name ELSE placeholder

\* C5  List rendering: once transform has returned for a root markup whose
\* child is `A.map(callback)` with a callback returning <li>{x}</li>, the
\* root Element of the IR has exactly one child, an Element with tag li,
\* with the directive {array: A, item: first parameter or "item", index:
\* second parameter or "index"} and with one child, the token {{ x }}.
ListRendering ==
  (pc = "done" /\ HasListChild) =>
    /\ Len(ReturnedIR.template.elements) = 1
    /\ Len(ReturnedIR.template.elements[1].children) = 1
    /\ LET el == ReturnedIR.template.elements[1].children[1]
           callback == ListExpression.arguments[1]
       IN /\ el.type = "Element"
          /\ el.tag = S("li")
          /\ "ngFor" \in DOMAIN el
          /\ el.ngFor = [array |-> ListExpression.callee.object.name,
                         item |-> ParameterOr(callback, 1, S("item")),
                         index |-> ParameterOr(callback, 2, S("index"))]
          /\ el.children =
               <<Str_(S("{{ ") \o CallbackMarkup(callback).children[1].expression.name \o S(" }}"))>>

\* transform has returned for a list whose callback names the item only
ListRenderingWitness ==
  /\ pc = "done"
  /\ HasListChild
  /\ Len(ListExpression.arguments[1].params) = 1
  /\ ReturnedIR.template.elements[1].children[1].ngFor.index = S("index")

\* an IR no rule has written to
IsEmptyIR(ir) ==
  /\ ir.class.properties = <<>>
  /\ ir.class.methods = <<>>
  /\ ir.class.lifecycleHooks = <<>>
  /\ ir.template.elements = <<>>
  /\ ir.template.bindings = <<>>
  /\ ir.styles = <<>>
  /\ ir.setterMappings = <<>>

\* C9  Transform is deterministic and stateless across calls: any two calls
\* of one transformer that were handed equal trees returned equal IRs,
\* whatever was transformed before or in between, and the IR is empty when
\* the first rule of a call is about to run.
TransformStateless ==
  /\ \A i \in 1..Len(returned) : \A j \in 1..Len(returned) :
       returned[i].tree = returned[j].tree => returned[i].ir = returned[j].ir
  /\ pc = "hooks" => IsEmptyIR(angular_ast)

\* three calls have returned: the first and the third for the same tree with
\* a state hook, the second for another tree
TransformStatelessWitness ==
  /\ Len(returned) = 3
  /\ returned[1].tree = returned[3].tree
  /\ returned[2].tree # returned[1].tree
  /\ Len(returned[1].ir.class.properties) > 0
  /\ Len(returned[2].ir.class.properties) > 0


\* the attributes under the opening tags of the markup elements, each with
\* the tag of its element
RECURSIVE OpeningAttributes(_)
OpeningAttributes(elements) ==
  IF Len(elements) = 0 THEN <<>>
  ELSE [n \in 1..Len(Head(elements).openingElement.attributes) |->
          [tag |-> Head(elements).openingElement.name.name,
           name |-> Head(elements).openingElement.attributes[n].name.name,
           value |-> Head(elements).openingElement.attributes[n].value]]
       \o OpeningAttributes(Tail(elements))

MarkupAttributes == OpeningAttributes(collect_jsx_nodes(component_fn))

\* onClick, onChange, ...
IsEventName(name) == Len(name) > 2 /\ SubSeq(name, 1, 2) = S("on") /\ name[3] # LowerChar(name[3])

\* the event an event-prefixed attribute stands for: onClick -> (click)
AngularEvent(name) == S("(") \o Lower(SubSeq(name, 3, Len(name))) \o S(")")

\* the expression of an attribute value
Expression(value) == IF value.type = "JSXExpressionContainer" THEN value.expression ELSE value

\* a function whose body is a call, with one argument, of a setter the map registers
IsSetterHandler(handler, setter_map) ==
  /\ handler.type \in {"ArrowFunctionExpression", "FunctionExpression"}
  /\ handler.body.type = "CallExpression"
  /\ handler.body.callee.type = "Identifier"
  /\ Len(handler.body.arguments) = 1
  /\ \E n \in 1..Len(setter_map) : setter_map[n].key = handler.body.callee.name

\* <param>.target.value for the first parameter of the handler
IsTargetValue(arg, params) ==
  /\ Len(params) >= 1
  /\ arg.type = "MemberExpression"
  /\ arg.property.type = "Identifier"
  /\ arg.property.name = S("value")
  /\ arg.object.type = "MemberExpression"
  /\ arg.object.property.type = "Identifier"
  /\ arg.object.property.name = S("target")
  /\ arg.object.object.type = "Identifier"
  /\ arg.object.object.name = params[1].name

\* the source text of an expression
RECURSIVE SourceText(_)
SourceTexts(nodes) == [n \in 1..Len(nodes) |-> SourceText(nodes[n])]

SourceText(expr) ==
  CASE expr.type = "Identifier" -> expr.name
    [] expr.type = "Literal" ->
         IF expr.vtype = "str" THEN S("'") \o expr.value \o S("'")
         ELSE IF expr.vtype = "bool" THEN Lower(expr.value)
         ELSE IF expr.vtype = "NoneType" THEN S("null")
         ELSE expr.value
    [] expr.type = "BinaryExpression" ->
         SourceText(expr.left) \o S(" ") \o expr.operator \o S(" ") \o SourceText(expr.right)
    [] expr.type = "MemberExpression" -> SourceText(expr.object) \o S(".") \o SourceText(expr.property)
    [] expr.type = "CallExpression" ->
         SourceText(expr.callee) \o S("(") \o Join(SourceTexts(expr.arguments), S(", ")) \o S(")")
    [] OTHER -> S("")

\* the handler text the rewriting of a setter handler is to give
SetterHandlerText(handler, setter_map) ==
  DictGet(setter_map, handler.body.callee.name) \o S(" = ")
    \o (IF IsTargetValue(handler.body.arguments[1], handler.params)
        THEN S("$event.target.value")
        ELSE SourceText(handler.body.arguments[1]))

\* C2  Handler rewriting for setter calls: once transform has returned,
\* every event binding of the IR that stands for an attribute whose
\* handler is a function calling a registered setter of P with one
\* argument has the handler text `P = $event.target.value` when the
\* argument is <param>.target.value, and `P = <source text of the
\* argument>` otherwise.
SetterHandlersRewritten ==
  pc = "done" =>
    \A a \in 1..Len(MarkupAttributes) : \A b \in 1..Len(ReturnedIR.template.bindings) :
      (/\ IsEventName(MarkupAttributes[a].name)
       /\ IsSetterHandler(Expression(MarkupAttributes[a].value), ReturnedIR.setterMappings)
       /\ ReturnedIR.template.bindings[b].type = "event"
       /\ ReturnedIR.template.bindings[b].name = AngularEvent(MarkupAttributes[a].name))
      => ReturnedIR.template.bindings[b].handler
           = SetterHandlerText(Expression(MarkupAttributes[a].value), ReturnedIR.setterMappings)

\* the tags of the markup elements that carry the attribute
TagsCarrying(name) ==
  {MarkupAttributes[a].tag : a \in {n \in 1..Len(MarkupAttributes) : MarkupAttributes[n].name = name}}

\* how many markup elements carry the attribute
CountCarrying(name) == Cardinality({n \in 1..Len(MarkupAttributes) : MarkupAttributes[n].name = name})

\* the tag of the rendered element opened at position lt of the text
TagOpenedAt(text, lt) ==
  SubSeq(text, lt + 1, First(lt + 1, Len(text), LAMBDA k : text[k] \in {" ", ">", "\n"}) - 1)

\* the tags of the rendered elements whose opening tag holds the text p
TagsRenderedWith(text, p) ==
  {TagOpenedAt(text, Last(1, j, LAMBDA k : text[k] = "<")) : j \in {i \in 1..Len(text) : MatchAt(text, i, p)}}

\* C3  Element-scoped rendering: when exactly one markup element carries a
\* click handler, the template text generated for the returned IR holds the
\* click-event attribute in the opening tag of that element and of no other.
ClickRenderedOnItsElementOnly ==
  (pc = "done" /\ Len(html_code) > 0 /\ html_code[1].ok /\ CountCarrying(S("onClick")) = 1) =>
    TagsRenderedWith(html_code[1].text, S("(click)")) = TagsCarrying(S("onClick"))

\* the markup elements with `value={s}` and a change handler that is a
\* one-parameter function calling setS(<param>.target.value), setS -> s
\* in the setter map: the positions of their change attributes
TwoWayCandidates(setter_map) ==
  {a \in 1..Len(MarkupAttributes) :
     /\ MarkupAttributes[a].name = S("onChange")
     /\ IsSetterHandler(Expression(MarkupAttributes[a].value), setter_map)
     /\ Len(Expression(MarkupAttributes[a].value).params) = 1
     /\ IsTargetValue(Expression(MarkupAttributes[a].value).body.arguments[1],
                      Expression(MarkupAttributes[a].value).params)
     /\ \E v \in 1..Len(MarkupAttributes) :
          /\ MarkupAttributes[v].tag = MarkupAttributes[a].tag
          /\ MarkupAttributes[v].name = S("value")
          /\ Expression(MarkupAttributes[v].value).type = "Identifier"
          /\ MapsTo(setter_map, Expression(MarkupAttributes[a].value).body.callee.name,
                    Expression(MarkupAttributes[v].value).name)}

\* the property the change handler at position a of MarkupAttributes sets
PropertySetAt(a, setter_map) == DictGet(setter_map, Expression(MarkupAttributes[a].value).body.callee.name)

\* C4  Two-way binding: once transform has returned, for every markup
\* element with value s and change handler setS(<param>.target.value) the
\* IR has exactly one twoWay binding for s, that binding names the element
\* as its target, and no event binding stands for the change attribute.
TwoWayBindingForValueAndChange ==
  pc = "done" =>
    \A a \in TwoWayCandidates(ReturnedIR.setterMappings) :
      /\ Cardinality({b \in 1..Len(ReturnedIR.template.bindings) :
                        /\ ReturnedIR.template.bindings[b].type = "twoWay"
                        /\ ReturnedIR.template.bindings[b].property
                             = PropertySetAt(a, ReturnedIR.setterMappings)}) = 1
      /\ \A b \in 1..Len(ReturnedIR.template.bindings) :
           /\ ReturnedIR.template.bindings[b].type = "twoWay" => "target" \in DOMAIN ReturnedIR.template.bindings[b]
           /\ ~(/\ ReturnedIR.template.bindings[b].type = "event"
                /\ ReturnedIR.template.bindings[b].name = S("(change)"))

\* whether the binding stands for the event-prefixed attribute
BindingFor(binding, name) ==
  \/ binding.type = "event" /\ binding.name = AngularEvent(name)
  \/ binding.type = "twoWay" /\ name = S("onChange")

\* C6  No-throw on unrecognized shapes: a transform call for a component
\* whose markup has event-prefixed attributes under its opening tags does
\* not raise, and the IR it returns holds a binding for each of them.
EveryEventAttributeBound ==
  \A a \in 1..Len(MarkupAttributes) :
    IsEventName(MarkupAttributes[a].name) =>
      /\ pc # "raised"
      /\ pc = "done" =>
           \E b \in 1..Len(ReturnedIR.template.bindings) :
             BindingFor(ReturnedIR.template.bindings[b], MarkupAttributes[a].name)

\* every call but the first returned what the call before it returned
SameEveryTime(code) == \A k \in 2..Len(code) : code[k] = code[k - 1]

\* C7  Idempotence of generation: each generator, called again on the IR
\* object with the same name, returns the text it returned before.
GenerateIdempotent == SameEveryTime(ts_code) /\ SameEveryTime(html_code) /\ SameEveryTime(css_code)

\* C8  Generators do not mutate the IR: after a generate call has returned,
\* the IR equals the IR as it was when the call began.
GenerateKeepsIR == ir_before.type = "AngularComponent" => angular_ast = ir_before

\* C10  Fixed rule order: a transform call that found a component function
\* and has ended has run the four rules once each, in the order State-Hook,
\* Component, Template, Event, and the Event Rule read the setter map with
\* every entry of the call in it.
FixedRuleOrder ==
  (pc \in {"done", "raised"} /\ FoundComponent) =>
    /\ applied = <<"HooksRules", "ComponentRules", "JSXRules", "EventRules">>
    /\ setters_read = angular_ast.setterMappings


\* whether a function declaration is anywhere in the tree
RECURSIVE ContainsFunctionDeclaration(_), AnyContainsFunctionDeclaration(_)
AnyContainsFunctionDeclaration(nodes) ==
  \E n \in 1..Len(nodes) : ContainsFunctionDeclaration(nodes[n])

ContainsFunctionDeclaration(node) ==
  /\ IsDict(node)
  /\ \/ node.type = "FunctionDeclaration"
     \/ AnyContainsFunctionDeclaration(Values(node))

\* C11  MissingComponent: a transform call for a tree without a component
\* function returns, without raising and without applying any rule, an IR
\* whose class name is empty and whose properties, methods, lifecycle
\* hooks, template elements, template bindings and styles are empty.
MissingComponentGivesEmptyIR ==
  (pc # "ready" /\ ~ContainsFunctionDeclaration(react_ast)) =>
    /\ pc = "done"
    /\ applied = <<>>
    /\ ReturnedIR.class.name = S("")
    /\ IsEmptyIR(ReturnedIR)

\* a call for a module whose component is an arrow function has returned,
\* after a call that returned an IR with a property
MissingComponentWitness ==
  /\ pc = "done"
  /\ Len(returned) = 2
  /\ Len(returned[1].ir.class.properties) > 0
  /\ ~ContainsFunctionDeclaration(react_ast)
  /\ Len(react_ast.body) = 2
  /\ returned[2].tree = react_ast


\* the Elements of an element tree, depth-first
RECURSIVE ElementsOf(_)
ElementsOf(children) ==
  IF Len(children) = 0 THEN <<>>
  ELSE (IF Head(children).type = "Element"
        THEN <<Head(children)>> \o ElementsOf(Head(children).children)
        ELSE <<>>)
       \o ElementsOf(Tail(children))

\* the id an Element carries: its field of that name or, without one, the
\* value of its attribute `id`, which is what the Template Generator
\* compares the target of a binding with
IdOf(element) ==
  IF "id" \in DOMAIN element THEN element.id ELSE element_id_of(element.attributes)

\* C12  Element identity: when the Template Rule has run and the Event Rule
\* is about to, every Element of the IR's element tree carries an id and
\* no two Elements of the tree carry the same id.
ElementsCarryDistinctIds ==
  pc = "event" =>
    /\ \A n \in 1..Len(ElementsOf(angular_ast.template.elements)) :
         IdOf(ElementsOf(angular_ast.template.elements)[n]).type # "None"
    /\ \A n \in 1..Len(ElementsOf(angular_ast.template.elements)) :
         \A m \in 1..Len(ElementsOf(angular_ast.template.elements)) :
           n # m => IdOf(ElementsOf(angular_ast.template.elements)[n])
                      # IdOf(ElementsOf(angular_ast.template.elements)[m])


\* C13  Property names are unique: in the IR transform returned no two
\* entries of class.properties have the same name.
PropertyNamesUnique ==
  pc = "done" =>
    \A n \in 1..Len(ReturnedIR.class.properties) :
      CountNamed(ReturnedIR.class.properties, ReturnedIR.class.properties[n].name) = 1


\* C14  Component name: a transform call for a tree with a component
\* function does not raise whether or not the function has a declared
\* name, and the class name of the IR it returns is the declared name N,
\* or a non-empty placeholder when there is no declared name.
ClassNameIsComponentName ==
  FoundComponent =>
    /\ ~IsDict(component_fn.id) => pc # "raised"
    /\ pc = "done" =>
         IF IsDict(component_fn.id)
         THEN ReturnedIR.class.name = component_fn.id.name
         ELSE ReturnedIR.class.name # S("")


\* C15  Inbound properties: the IR transform returned for a component
\* function declared with parameters has, for each parameter, one property
\* in class.properties named after it and decorated `@Input()`.
ParametersAreInputs ==
  (pc = "done" /\ FoundComponent) =>
    \A n \in 1..Len(component_fn.params) :
      Cardinality({k \in 1..Len(ReturnedIR.class.properties) :
                     /\ ReturnedIR.class.properties[k].name = component_fn.params[n].name
                     /\ ReturnedIR.class.properties[k].decorator = S("@Input()")}) = 1


\* whether the type is the one the shape of the initial value X calls for
TypeFollowsShape(type, x) ==
  CASE x.type = "ArrayExpression" -> EndsWith(type, S("[]"))
    [] x.type = "Literal" /\ x.vtype = "str" -> type = S("string")
    [] x.type = "Literal" /\ x.vtype \in {"int", "float"} -> type = S("number")
    [] x.type = "Literal" /\ x.vtype = "bool" -> type = S("boolean")
    [] OTHER -> type = S("any")

\* C16  Type inference of a state property: once transform has returned,
\* every declaration `const [s, setS] = useState(X)` has a property named
\* s with the type the shape of X calls for (array literal: an array type, string
\* literal: string, numeric literal: number, true or false: boolean,
\* anything else: any), and for X = 0 the initial-value text `0`.
StateTypeFollowsLiteralShape ==
  pc = "done" =>
    \A n \in 1..Len(StateHookDeclarators) : \E k \in 1..Len(ReturnedIR.class.properties) :
      /\ ReturnedIR.class.properties[k].name = StateHookDeclarators[n].id.elements[1].name
      /\ TypeFollowsShape(ReturnedIR.class.properties[k].type, StateHookDeclarators[n].init.arguments[1])
      /\ StateHookDeclarators[n].init.arguments[1] = Literal("int", S("0")) =>
           ReturnedIR.class.properties[k].initialValue = S("0")


\* the transpile call has ended with an exception: its own, the parser's,
\* one of transform or one of a generator
TranspileRaised == tp = "raised" \/ (tp = "transform" /\ pc = "raised")

\* each generator has been called and has returned its text
AllGenerated ==
  /\ Len(ts_code) = 1 /\ ts_code[1].ok
  /\ Len(html_code) = 1 /\ html_code[1].ok
  /\ Len(css_code) = 1 /\ css_code[1].ok

\* the input file holds a text for which the parser raises
ParserRaises == source.readable /\ source.text.type = "source" /\ Raised(source.text.parsed)

\* C17  UnparsableInput: when the parser raises for the input, transpile
\* ends with the exception and without a write_file call; and whenever a
\* write_file call has been made, parsing and transform have returned and
\* each of the three generators has returned its text.
NoWriteBeforeAllGenerated ==
  /\ (ParserRaises /\ tp \notin {"read", "parse"}) => (tp = "raised" /\ writes = <<>> /\ outcome = None_)
  /\ writes # <<>> => (react_ast = source.text.parsed /\ pc = "done" /\ AllGenerated)

\* the call for a text the parser rejects has ended
UnparsableInputWitness ==
  /\ ParserRaises
  /\ TranspileRaised
  /\ writes = <<>>

\* C18  I/O failures propagate: once a write_file call of transpile has
\* failed, the call ends with an exception and never returns the record of
\* the three paths.
FailedWriteRaises ==
  \A n \in 1..Len(writes) :
    ~writes[n].ok => (tp = "raised" /\ outcome = None_)


\* the strings among the children of the Elements of an element tree
RECURSIVE StringsOf(_)
StringsOf(children) ==
  IF Len(children) = 0 THEN <<>>
  ELSE (IF Head(children).type = "str" THEN <<Head(children).value>>
        ELSE IF Head(children).type = "Element" THEN StringsOf(Head(children).children)
        ELSE <<>>)
       \o StringsOf(Tail(children))

\* whether an opening tag starts at position i of the text
OpensTag(text, i) == text[i] = "<" /\ i < Len(text) /\ text[i + 1] \notin {"/", "!"}

\* the tags opened in the text from position i on, in the order of the text
RECURSIVE OpenedTags(_, _)
OpenedTags(text, i) ==
  IF First(i, Len(text), LAMBDA k : OpensTag(text, k)) = 0 THEN <<>>
  ELSE <<TagOpenedAt(text, First(i, Len(text), LAMBDA k : OpensTag(text, k)))>>
         \o OpenedTags(text, First(i, Len(text), LAMBDA k : OpensTag(text, k)) + 1)

\* C19  Template rendering of children: every call of the Template
\* Generator on an IR transform returned gives text, without raising; the
\* text opens the Elements of the IR's element tree in depth-first order
\* and holds every string child (literal text or interpolation token).
ChildrenRenderedDepthFirst ==
  \A n \in 1..Len(html_code) :
    /\ html_code[n].ok
    /\ Len(angular_ast.template.elements) > 0 =>
         /\ OpenedTags(html_code[n].text, 1)
              = [k \in 1..Len(ElementsOf(angular_ast.template.elements)) |->
                   ElementsOf(angular_ast.template.elements)[k].tag]
         /\ \A k \in 1..Len(StringsOf(angular_ast.template.elements)) :
              Contains(html_code[n].text, StringsOf(angular_ast.template.elements)[k])


\* the names a binding target binds: the identifiers of a pattern (an empty
\* slot binds none), or the identifier itself
NamesBound(target) ==
  IF target.type = "ArrayPattern"
  THEN {target.elements[k].name : k \in {j \in 1..Len(target.elements) : target.elements[j].type = "Identifier"}}
  ELSE IF target.type = "Identifier" THEN {target.name}
  ELSE {}

\* a declaration `<target> = useState(...)` whose target is not a pattern or
\* binds fewer than two names
IsIrregularHookDeclarator(d) ==
  /\ d.init.type = "CallExpression"
  /\ d.init.callee.type = "Identifier"
  /\ d.init.callee.name = S("useState")
  /\ d.id.type # "ArrayPattern" \/ Cardinality(NamesBound(d.id)) < 2

IrregularHookDeclarators == SelectSeq(Declarators(ComponentStatements), IsIrregularHookDeclarator)

\* C20  State-Hook Rule skips irregular declarations: for a component with
\* a state-hook declaration whose target is not a destructuring pattern or
\* binds fewer than two names, the State-Hook Rule does not raise, and the
\* IR transform returns has no property and no setter-map entry under a
\* name that declaration binds.
IrregularHooksSkipped ==
  \A n \in 1..Len(IrregularHookDeclarators) :
    /\ ~(pc = "raised" /\ applied = <<"HooksRules">>)
    /\ pc = "done" =>
         \A name \in NamesBound(IrregularHookDeclarators[n].id) :
           /\ CountNamed(ReturnedIR.class.properties, name) = 0
           /\ ~DictHas(ReturnedIR.setterMappings, name)


\* the names of the function bindings among the statements: `const f =
\* <function>` and `function f() {...}`, in their order
RECURSIVE FunctionBindings(_)
FunctionBindings(statements) ==
  IF Len(statements) = 0 THEN <<>>
  ELSE (IF Head(statements).type = "FunctionDeclaration" THEN <<Head(statements).id.name>>
        ELSE IF Head(statements).type = "VariableDeclaration"
        THEN [n \in 1..Len(SelectSeq(Head(statements).declarations,
                                      LAMBDA d : d.init.type \in {"ArrowFunctionExpression", "FunctionExpression"})) |->
                SelectSeq(Head(statements).declarations,
                          LAMBDA d : d.init.type \in {"ArrowFunctionExpression", "FunctionExpression"})[n].id.name]
        ELSE <<>>)
       \o FunctionBindings(Tail(statements))

\* C21  One-level method scan: the methods of the IR transform returned are
\* the named function bindings that are direct statements of the component
\* function's body, and no others.
MethodsAreDirectBindings ==
  (pc = "done" /\ FoundComponent) =>
    [n \in 1..Len(ReturnedIR.class.methods) |-> ReturnedIR.class.methods[n].name]
      = FunctionBindings(ComponentStatements)


\* the function bindings among the statements, each with its function
RECURSIVE BoundFunctions(_)
BoundFunctions(statements) ==
  IF Len(statements) = 0 THEN <<>>
  ELSE (IF Head(statements).type = "FunctionDeclaration"
        THEN <<[name |-> Head(statements).id.name, function |-> Head(statements)]>>
        ELSE IF Head(statements).type = "VariableDeclaration"
                /\ Head(statements).declarations[1].init.type \in {"ArrowFunctionExpression", "FunctionExpression"}
        THEN <<[name |-> Head(statements).declarations[1].id.name,
                function |-> Head(statements).declarations[1].init]>>
        ELSE <<>>)
       \o BoundFunctions(Tail(statements))

\* the node kinds the renderer of the Component Rule supports
SupportedKinds ==
  {"CallExpression", "MemberExpression", "Identifier", "Literal", "ArrayExpression", "SpreadElement",
   "BinaryExpression", "IfStatement", "ExpressionStatement", "BlockStatement"}

\* a function body that is one node of an unsupported kind: as its
\* expression, or as the only statement of its block
IsUnsupportedBody(body) ==
  IF body.type = "BlockStatement"
  THEN Len(body.body) = 1 /\ body.body[1].type \notin SupportedKinds
  ELSE body.type \notin SupportedKinds

\* C22  Unsupported shapes render as empty text: the Component Rule does
\* not raise on a local function whose body is one node of a kind its
\* renderer does not support, and the body text of the method it makes of
\* that function is the empty string.
UnsupportedShapesRenderEmpty ==
  \A n \in 1..Len(BoundFunctions(ComponentStatements)) :
    IsUnsupportedBody(BoundFunctions(ComponentStatements)[n].function.body) =>
      /\ ~(pc = "raised" /\ applied = <<"HooksRules", "ComponentRules">>)
      /\ pc = "done" =>
           \A m \in 1..Len(ReturnedIR.class.methods) :
             ReturnedIR.class.methods[m].name = BoundFunctions(ComponentStatements)[n].name =>
               ReturnedIR.class.methods[m].body = S("")


\* the change attributes that satisfy the fusion condition for property P:
\* the handler is a one-parameter function whose body calls a setter the
\* map registers for P, and the element's value is the bare identifier P
FusableFor(property, setter_map) ==
  {a \in 1..Len(MarkupAttributes) :
     /\ MarkupAttributes[a].name = S("onChange")
     /\ Expression(MarkupAttributes[a].value).type \in {"ArrowFunctionExpression", "FunctionExpression"}
     /\ Len(Expression(MarkupAttributes[a].value).params) = 1
     /\ Expression(MarkupAttributes[a].value).body.type = "CallExpression"
     /\ Expression(MarkupAttributes[a].value).body.callee.type = "Identifier"
     /\ MapsTo(setter_map, Expression(MarkupAttributes[a].value).body.callee.name, property)
     /\ \E v \in 1..Len(MarkupAttributes) :
          /\ MarkupAttributes[v].tag = MarkupAttributes[a].tag
          /\ MarkupAttributes[v].name = S("value")
          /\ Expression(MarkupAttributes[v].value).type = "Identifier"
          /\ Expression(MarkupAttributes[v].value).name = property}

\* C23  Two-way fusion condition: every twoWay binding of the IR transform
\* returned is for a property P such that some element of the markup has
\* the bare identifier P as value and, as change handler, a one-parameter
\* function whose body calls a setter registered for P.
TwoWayOnlyWhenFusable ==
  pc = "done" =>
    \A b \in 1..Len(ReturnedIR.template.bindings) :
      ReturnedIR.template.bindings[b].type = "twoWay" =>
        FusableFor(ReturnedIR.template.bindings[b].property, ReturnedIR.setterMappings) # {}


\* the values of the string literals of a tree
RECURSIVE StringLiteralsOf(_), StringLiteralsIn(_)
StringLiteralsIn(nodes) ==
  IF Len(nodes) = 0 THEN {} ELSE StringLiteralsOf(Head(nodes)) \cup StringLiteralsIn(Tail(nodes))

StringLiteralsOf(node) ==
  IF ~IsDict(node) THEN {}
  ELSE IF node.type = "Literal" THEN (IF node.vtype = "str" THEN {node.value} ELSE {})
  ELSE StringLiteralsIn(Values(node))

\* the first text the Class Generator returned, when it has returned one
ClassText == IF Len(ts_code) > 0 /\ ts_code[1].ok THEN ts_code[1].text ELSE S("")

\* C24  String literals are protected from qualification: the class text
\* generated for the returned IR holds every string literal of every local
\* function of the component as it is written in the function, with no
\* `this.` put into it.
StringLiteralsKept ==
  (pc = "done" /\ Len(ts_code) > 0 /\ ts_code[1].ok) =>
    \A n \in 1..Len(BoundFunctions(ComponentStatements)) :
      \A value \in StringLiteralsOf(BoundFunctions(ComponentStatements)[n].function.body) :
        Contains(ClassText, S("'") \o value \o S("'"))

\* C25: rules are append-only.  Over each of the four rule steps of a
\* transform call, class.properties, class.methods, template.elements and
\* template.bindings as they were before the step are prefixes of the same
\* lists after it, and every key of the setter map is still a key.
IsPrefixOf(before, after) ==
  Len(before) <= Len(after) /\ SubSeq(after, 1, Len(before)) = before

SetterKeys(ir) == {ir.setterMappings[n].key : n \in 1..Len(ir.setterMappings)}

RuleSteps == {"hooks", "component", "jsx", "event"}

RuleStepAppends ==
  pc \in RuleSteps =>
    /\ IsPrefixOf(angular_ast.class.properties, angular_ast'.class.properties)
    /\ IsPrefixOf(angular_ast.class.methods, angular_ast'.class.methods)
    /\ IsPrefixOf(angular_ast.template.elements, angular_ast'.template.elements)
    /\ IsPrefixOf(angular_ast.template.bindings, angular_ast'.template.bindings)
    /\ SetterKeys(angular_ast) \subseteq SetterKeys(angular_ast')

RulesAppendOnly == [][RuleStepAppends]_vars

\* the four rules have run on a component with state, a method, markup and
\* an event attribute, each rule adding to what the rules before it left
RulesAppendOnlyWitness ==
  /\ pc = "done"
  /\ Len(applied) = 4
  /\ Len(angular_ast.class.properties) > 0
  /\ Len(angular_ast.class.methods) > 0
  /\ Len(angular_ast.template.elements) > 0
  /\ Len(angular_ast.template.bindings) > 0
  /\ SetterKeys(angular_ast) # {}

\* whether the value/change-handler pair of the element with this tag was
\* fused: the element has a value that is a bare identifier and a change
\* handler, and the IR holds a twoWay binding for that identifier
IsFused(tag) ==
  \E v \in 1..Len(MarkupAttributes) :
    /\ MarkupAttributes[v].tag = tag
    /\ MarkupAttributes[v].name = S("value")
    /\ Expression(MarkupAttributes[v].value).type = "Identifier"
    /\ \E c \in 1..Len(MarkupAttributes) :
         MarkupAttributes[c].tag = tag /\ MarkupAttributes[c].name = S("onChange")
    /\ \E b \in 1..Len(ReturnedIR.template.bindings) :
         /\ ReturnedIR.template.bindings[b].type = "twoWay"
         /\ ReturnedIR.template.bindings[b].property = Expression(MarkupAttributes[v].value).name

\* C26  Other event attributes survive fusion: once transform has returned,
\* every event-prefixed attribute other than the change handler on an
\* element whose value/change-handler pair was fused into a twoWay binding
\* has its own event binding in the IR.
OtherEventsSurviveFusion ==
  pc = "done" =>
    \A a \in 1..Len(MarkupAttributes) :
      (/\ IsEventName(MarkupAttributes[a].name)
       /\ MarkupAttributes[a].name # S("onChange")
       /\ IsFused(MarkupAttributes[a].tag)) =>
        \E b \in 1..Len(ReturnedIR.template.bindings) :
          /\ ReturnedIR.template.bindings[b].type = "event"
          /\ ReturnedIR.template.bindings[b].name = AngularEvent(MarkupAttributes[a].name)

\* C27  Root selection: once transform has returned for a component whose
\* own return statement returns markup, template.elements holds exactly one
\* root Element, lowered from that markup, also when a nested function
\* earlier in the body returns markup; it never holds more than one root.
RootIsComponentReturn ==
  (pc = "done" /\ FoundComponent) =>
    /\ Len(ReturnedIR.template.elements) <= 1
    /\ RootMarkup.type = "JSXElement" =>
         ReturnedIR.template.elements = <<convert_jsx_to_angular(RootMarkup)>>

\* an arrow function that declares no parameter and whose body is not a
\* call to a setter the map registers
IsPlainZeroParameterArrow(handler, setter_map) ==
  /\ handler.type = "ArrowFunctionExpression"
  /\ Len(handler.params) = 0
  /\ ~(/\ handler.body.type = "CallExpression"
       /\ handler.body.callee.type = "Identifier"
       /\ DictHas(setter_map, handler.body.callee.name))

\* C28  Zero-parameter handlers are not rewritten: once transform has
\* returned, the event binding of an attribute whose handler is an arrow
\* function with no parameter and a body that is not a registered setter
\* call has the re-printed body as handler text, no character replaced.
ZeroParameterHandlersKept ==
  pc = "done" =>
    \A a \in 1..Len(MarkupAttributes) :
      (/\ IsEventName(MarkupAttributes[a].name)
       /\ IsPlainZeroParameterArrow(Expression(MarkupAttributes[a].value), ReturnedIR.setterMappings)) =>
        \A b \in 1..Len(ReturnedIR.template.bindings) :
          (/\ ReturnedIR.template.bindings[b].type = "event"
           /\ ReturnedIR.template.bindings[b].name = AngularEvent(MarkupAttributes[a].name)) =>
            ReturnedIR.template.bindings[b].handler = ast_to_string(Expression(MarkupAttributes[a].value).body)

\* C29  Setter rewriting matches whole identifiers: in the class text the
\* Class Generator returns, a local function whose body is a call of an
\* identifier that is not a setter of the setter map is still that call,
\* also when the identifier ends with a setter's name.
CallsOfOtherIdentifiersKept ==
  (pc = "done" /\ Len(ts_code) > 0 /\ ts_code[1].ok) =>
    \A n \in 1..Len(BoundFunctions(ComponentStatements)) :
      (/\ BoundFunctions(ComponentStatements)[n].function.body.type = "CallExpression"
       /\ BoundFunctions(ComponentStatements)[n].function.body.callee.type = "Identifier"
       /\ ~DictHas(ReturnedIR.setterMappings, BoundFunctions(ComponentStatements)[n].function.body.callee.name)) =>
        Contains(ClassText, BoundFunctions(ComponentStatements)[n].function.body.callee.name \o S("("))

\* C30  Event syntax across the rule and the generator: in the template
\* text the Template Generator returns for an IR with markup, every event
\* binding of the Event Rule appears as the attribute name="handler", the
\* name being the target event in exactly one pair of parentheses.
EventRenderedInOnePairOfParentheses ==
  (pc = "done" /\ Len(html_code) > 0 /\ html_code[1].ok /\ Len(ReturnedIR.template.elements) > 0) =>
    \A b \in 1..Len(ReturnedIR.template.bindings) :
      ReturnedIR.template.bindings[b].type = "event" =>
        /\ Contains(html_code[1].text,
                    S(" ") \o ReturnedIR.template.bindings[b].name \o S("=\"")
                      \o ReturnedIR.template.bindings[b].handler \o S("\""))
        /\ ~Contains(html_code[1].text, S("(") \o ReturnedIR.template.bindings[b].name)

====
